---- MODULE Spec2Model ----
(***************************************************************************)
(* A state-machine model of the Kagent dashboard front-end (React).        *)
(*                                                                         *)
(* One page component is mounted at a time (the router of App.js).  The    *)
(* state is each page component's useState cells, the pending timers       *)
(* (setTimeout / setInterval) and the asynchronous operations awaiting a   *)
(* network response.  A render is a pure function of the state, so what    *)
(* is displayed is modelled by operators over the state.  A state setter   *)
(* called for a component instance that is no longer mounted has no        *)
(* effect (React); instances are told apart by the mount counter epoch.    *)
(* Record fields that no handler reads or writes (labels, descriptions,    *)
(* timestamps of the mock rows) are left out of the records.               *)
(***************************************************************************)
EXTENDS Integers, Sequences, FiniteSets, TLC

VARIABLES
  route,      \* the path whose page component is mounted
  epoch,      \* how many navigations happened: identifies the mounted instance
  timers,     \* pending timers, in creation order
  requests,   \* asynchronous operations awaiting network responses
  nextReq,    \* how many network requests were issued so far
  dash,       \* Dashboard component state
  pred,       \* PredictorAgent component state
  sec,        \* SecurityScanner component state
  cost,       \* CostOptimizer component state
  backup,     \* BackupManager component state
  rem,        \* RemediatorAgent component state
  settings    \* Settings component state

vars == <<route, epoch, timers, requests, nextReq,
          dash, pred, sec, cost, backup, rem, settings>>

(***************************************************************************)
(* Bounds of the model.                                                    *)
(***************************************************************************)
MaxTimers == 3     \* pending timers at one time
MaxMounts == 2     \* navigations in one run
MaxReq == 3        \* network requests issued in one run
MaxLen == 3        \* length of the lists a pure function is tried on
MaxQuick == 1      \* Dashboard quick actions awaiting their response
MaxEdits == 1      \* settings fields that differ from the defaults

(***************************************************************************)
(* Program constants: the delays of the timers, in milliseconds.           *)
(***************************************************************************)
MockDelay == 1000
ExecuteDelay == 2000
SaveDelay == 1000
RefetchDelay == 5000
MetricsInterval == 30000

None == "none"               \* null, for a string-valued cell
Null == [null |-> TRUE]      \* null, for an object-valued cell

(***************************************************************************)
(* Helpers on sequences.                                                   *)
(***************************************************************************)
Range(s) == {s[i] : i \in DOMAIN s}

RemoveAt(s, i) == SubSeq(s, 1, i - 1) \o SubSeq(s, i + 1, Len(s))

\* Array.prototype.map
Map(s, F(_)) == [i \in DOMAIN s |-> F(s[i])]

\* Array.prototype.filter
Filter(s, P(_)) == SelectSeq(s, P)

(***************************************************************************)
(* Router (App.js) and Sidebar (Navbar.js).                                *)
(***************************************************************************)
Routes ==
  [p \in {"/", "/predictor", "/security", "/cost", "/backup", "/remediator", "/settings"} |->
     CASE p = "/" -> "Dashboard"
       [] p = "/predictor" -> "PredictorAgent"
       [] p = "/security" -> "SecurityScanner"
       [] p = "/cost" -> "CostOptimizer"
       [] p = "/backup" -> "BackupManager"
       [] p = "/remediator" -> "RemediatorAgent"
       [] p = "/settings" -> "Settings"]

\* a Sidebar without the Settings link
navItemsWithoutSettings ==
  <<"/", "/predictor", "/security", "/cost", "/backup", "/remediator">>

navItems ==
  <<"/", "/predictor", "/security", "/cost", "/backup", "/remediator", "/settings">>

Page == Routes[route]

\* what App renders: the Sidebar with its links, the Navbar, and in <main>
\* the element of every Route whose path is the location
App ==
  [sidebar |-> navItems, navbar |-> "Navbar",
   main |-> {Routes[p] : p \in {q \in DOMAIN Routes : q = route}}]

(***************************************************************************)
(* Timers.  A timer is pending from its creation until it fires; none of   *)
(* the setTimeout timers is ever cleared.  Of two pending timers, the one  *)
(* created first fires first unless its delay is longer.                   *)
(***************************************************************************)
TimerAt(e, kind, delay, arg, captured) ==
  [kind |-> kind, epoch |-> e, delay |-> delay, arg |-> arg, captured |-> captured]

Timer(kind, delay, arg, captured) == TimerAt(epoch, kind, delay, arg, captured)

CanFire(i) ==
  /\ i \in DOMAIN timers
  /\ \A j \in 1..(i - 1) : timers[j].delay > timers[i].delay

\* the timer's component instance is still the mounted one
Live(t) == t.epoch = epoch

(***************************************************************************)
(* RemediatorAgent (pages/RemediatorAgent.js).                             *)
(***************************************************************************)
Action(id, status, executedAt, result, details) ==
  [id |-> id, status |-> status, executedAt |-> executedAt,
   result |-> result, details |-> details]

mockActions ==
  << Action("action-001", "pending", None, None, None),
     Action("action-002", "completed", "2025-05-12T12:36:00Z", "success",
            "Evicted 3 pods to reduce memory pressure"),
     Action("action-003", "failed", "2025-05-12T12:31:00Z", "failure",
            "Failed to delete pod: permission denied"),
     Action("action-004", "pending", None, None, None),
     Action("action-005", "completed", "2025-05-12T12:21:00Z", "success",
            "ConfigMap updated successfully") >>

RemInit ==
  [actions |-> <<>>, loading |-> TRUE, autoRemediate |-> FALSE, activeTab |-> "pending"]

RemTabs == {"all", "pending", "completed", "failed"}

\* a filter without the branch of the 'failed' tab
getFilteredActionsNoFailed(actions, activeTab) ==
  IF activeTab = "all" THEN actions
  ELSE LET keep(a) ==
             IF activeTab = "pending" THEN a.status = "pending"
             ELSE IF activeTab = "completed" THEN a.status = "completed"
             ELSE TRUE
       IN Filter(actions, keep)

\* getFilteredActions, as a function of the state it reads
getFilteredActions(actions, activeTab) ==
  IF activeTab = "all" THEN actions
  ELSE LET keep(a) ==
             IF activeTab = "pending" THEN a.status = "pending"
             ELSE IF activeTab = "completed" THEN a.status = "completed"
             ELSE IF activeTab = "failed" THEN a.status = "failed"
             ELSE TRUE
       IN Filter(actions, keep)

CountStatus(actions, s) == Len(Filter(actions, LAMBDA a : a.status = s))
pendingCount == CountStatus(rem.actions, "pending")
completedCount == CountStatus(rem.actions, "completed")
failedCount == CountStatus(rem.actions, "failed")

\* the number a tab label shows
TabLabelCount(tab) ==
  CASE tab = "all" -> Len(rem.actions)
    [] tab = "pending" -> pendingCount
    [] tab = "completed" -> completedCount
    [] tab = "failed" -> failedCount

\* the rows of the table: none while loading
RemRows == IF rem.loading THEN <<>> ELSE getFilteredActions(rem.actions, rem.activeTab)

\* first half of handleExecuteAction: the clicked action becomes in-progress
MarkInProgress(actions, actionId) ==
  Map(actions, LAMBDA a : IF a.id = actionId THEN [a EXCEPT !.status = "in-progress"] ELSE a)

\* a callback that completes every action of the list
MarkCompletedAll(actions, actionId) ==
  Map(actions, LAMBDA a :
        [a EXCEPT !.status = "completed", !.executedAt = "now", !.result = "success",
                  !.details = "Remediation action executed successfully"])

\* the timer callback of handleExecuteAction, on the list the handler captured
MarkCompleted(actions, actionId) ==
  Map(actions, LAMBDA a :
        IF a.id = actionId
        THEN [a EXCEPT !.status = "completed", !.executedAt = "now",
                       !.result = "success",
                       !.details = "Remediation action executed successfully"]
        ELSE a)

\* the Execute button of a displayed pending row
handleExecuteAction(actionId) ==
  /\ Page = "RemediatorAgent"
  /\ Len(timers) < MaxTimers
  /\ \E i \in DOMAIN RemRows : RemRows[i].id = actionId /\ RemRows[i].status = "pending"
  /\ rem' = [rem EXCEPT !.actions = MarkInProgress(rem.actions, actionId)]
  /\ timers' = Append(timers, Timer("execute", ExecuteDelay, actionId, rem.actions))
  /\ UNCHANGED <<route, epoch, requests, nextReq, dash, pred, sec, cost, backup, settings>>

ExecuteTimerFires(i) ==
  /\ CanFire(i)
  /\ timers[i].kind = "execute"
  /\ timers' = RemoveAt(timers, i)
  /\ rem' = IF Live(timers[i])
            THEN [rem EXCEPT !.actions = MarkCompleted(timers[i].captured, timers[i].arg)]
            ELSE rem
  /\ UNCHANGED <<route, epoch, requests, nextReq, dash, pred, sec, cost, backup, settings>>

\* a toggle that keeps the flag in a store shared with the Settings form
handleToggleShared ==
  /\ Page = "RemediatorAgent"
  /\ rem' = [rem EXCEPT !.autoRemediate = ~rem.autoRemediate]
  /\ settings' = [settings EXCEPT !.settings.autoRemediateEnabled = ~rem.autoRemediate]
  /\ UNCHANGED <<route, epoch, timers, requests, nextReq, dash, pred, sec, cost, backup>>

handleToggleAutoRemediate ==
  /\ Page = "RemediatorAgent"
  /\ rem' = [rem EXCEPT !.autoRemediate = ~rem.autoRemediate]
  /\ UNCHANGED <<route, epoch, timers, requests, nextReq, dash, pred, sec, cost, backup, settings>>

RemSetActiveTab(tab) ==
  /\ Page = "RemediatorAgent"
  /\ tab \in RemTabs
  /\ rem' = [rem EXCEPT !.activeTab = tab]
  /\ UNCHANGED <<route, epoch, timers, requests, nextReq, dash, pred, sec, cost, backup, settings>>

\* the effect's setTimeout callback: setActions(mockActions); setLoading(false)
RemMockTimerFires(i) ==
  /\ CanFire(i)
  /\ timers[i].kind = "remLoad"
  /\ timers' = RemoveAt(timers, i)
  /\ rem' = IF Live(timers[i])
            THEN [rem EXCEPT !.actions = mockActions, !.loading = FALSE]
            ELSE rem
  /\ UNCHANGED <<route, epoch, requests, nextReq, dash, pred, sec, cost, backup, settings>>

(***************************************************************************)
(* CostOptimizer (pages/CostOptimizer.js).  Costs are in cents.            *)
(***************************************************************************)
Optimization(id, currentCost, potentialCost) ==
  [id |-> id, currentCost |-> currentCost, potentialCost |-> potentialCost]

mockOptimizations ==
  << Optimization(1, 1540, 770), Optimization(2, 1280, 640), Optimization(3, 1850, 1233),
     Optimization(4, 7000, 5000), Optimization(5, 820, 410) >>

\* Array.prototype.reduce((sum, item) => sum + f(item), 0)
RECURSIVE SumOver(_, _)
SumOver(list, field) ==
  IF list = <<>> THEN 0 ELSE Head(list)[field] + SumOver(Tail(list), field)

\* x.toFixed(1) of num / den * 100, as tenths of a percent (round half up)
PercentTenths(num, den) == (num * 2000 + den) \div (2 * den)

CostInit ==
  [optimizations |-> <<>>, loading |-> TRUE,
   savingsSummary |-> [current |-> 0, potential |-> 0, percentage |-> 0]]

\* a summary whose percentage is taken of the potential cost
SavingsSummaryOfPotential(optimizations) ==
  LET totalCurrent == SumOver(optimizations, "currentCost")
      totalPotential == SumOver(optimizations, "potentialCost")
  IN [current |-> totalCurrent, potential |-> totalPotential,
      percentage |-> PercentTenths(totalCurrent - totalPotential, totalPotential)]

\* totalCurrent, totalPotential and percentage.toFixed(1) of the callback
SavingsSummary(optimizations) ==
  LET totalCurrent == SumOver(optimizations, "currentCost")
      totalPotential == SumOver(optimizations, "potentialCost")
  IN [current |-> totalCurrent, potential |-> totalPotential,
      percentage |-> PercentTenths(totalCurrent - totalPotential, totalCurrent)]

\* the state the callback leaves, given the list it holds
CostLoadedWith(optimizations) ==
  [optimizations |-> optimizations, loading |-> FALSE,
   savingsSummary |-> SavingsSummary(optimizations)]

CostLoaded == CostLoadedWith(mockOptimizations)

\* the third summary card: (current - potential).toFixed(2), in cents
SavingsShown == cost.savingsSummary.current - cost.savingsSummary.potential

CostMockTimerFires(i) ==
  /\ CanFire(i)
  /\ timers[i].kind = "costLoad"
  /\ timers' = RemoveAt(timers, i)
  /\ cost' = IF Live(timers[i]) THEN CostLoadedWith(timers[i].captured) ELSE cost
  /\ UNCHANGED <<route, epoch, requests, nextReq, dash, pred, sec, backup, rem, settings>>

(***************************************************************************)
(* SecurityScanner (in api/predictorService.js, lines 516-731).            *)
(***************************************************************************)
Issue(id, type, severity) == [id |-> id, type |-> type, severity |-> severity]

mockIssues ==
  << Issue(1, "vulnerability", "critical"), Issue(2, "misconfiguration", "high"),
     Issue(3, "compliance", "medium"), Issue(4, "vulnerability", "high"),
     Issue(5, "misconfiguration", "low") >>

SecFilters == {"all", "vulnerability", "misconfiguration", "compliance"}
Severities == {"critical", "high", "medium", "low"}

SecInit == [securityIssues |-> <<>>, loading |-> TRUE, filter |-> "all"]

filteredIssues(securityIssues, filter) ==
  Filter(securityIssues, LAMBDA issue : IF filter = "all" THEN TRUE ELSE issue.type = filter)

\* summary cards counted over the filtered list
SeverityCountFiltered(securityIssues, severity) ==
  Len(Filter(filteredIssues(securityIssues, sec.filter), LAMBDA i : i.severity = severity))

\* the four summary cards
SeverityCount(securityIssues, severity) ==
  Len(Filter(securityIssues, LAMBDA i : i.severity = severity))

\* the numbers the four summary cards show
SeverityCards == [severity \in Severities |-> SeverityCount(sec.securityIssues, severity)]

\* the number in the heading "Security Issues (n)"
SecHeadingCount == Len(filteredIssues(sec.securityIssues, sec.filter))

\* the rows of the table: none while loading
SecRows == IF sec.loading THEN <<>> ELSE filteredIssues(sec.securityIssues, sec.filter)

SecMockTimerFires(i) ==
  /\ CanFire(i)
  /\ timers[i].kind = "secLoad"
  /\ timers' = RemoveAt(timers, i)
  /\ sec' = IF Live(timers[i])
            THEN [sec EXCEPT !.securityIssues = mockIssues, !.loading = FALSE]
            ELSE sec
  /\ UNCHANGED <<route, epoch, requests, nextReq, dash, pred, cost, backup, rem, settings>>

\* the select's onChange: setFilter(e.target.value)
SecSetFilter(f) ==
  /\ Page = "SecurityScanner"
  /\ f \in SecFilters
  /\ sec' = [sec EXCEPT !.filter = f]
  /\ UNCHANGED <<route, epoch, timers, requests, nextReq, dash, pred, cost, backup, rem, settings>>

(***************************************************************************)
(* BackupManager (in api/predictorService.js, lines 124-515).              *)
(***************************************************************************)
Backup(id, status) == [id |-> id, status |-> status]
Resource(kind, name) == [kind |-> kind, name |-> name]

mockBackups ==
  << Backup("backup-001", "completed"), Backup("backup-002", "completed"),
     Backup("backup-003", "completed"), Backup("backup-004", "completed"),
     Backup("backup-005", "completed") >>

mockRestores ==
  << Backup("restore-001", "completed"), Backup("restore-002", "completed"),
     Backup("restore-003", "completed") >>

mockNamespaces == <<"default", "kube-system", "monitoring", "ingress-nginx">>

mockSelectedResources ==
  << Resource("Deployment", "nginx-test"), Resource("Service", "nginx-test"),
     Resource("ConfigMap", "prometheus-server") >>

\* the check boxes the form offers
OfferedResources ==
  { Resource("Deployment", "nginx-test"), Resource("Service", "nginx-test"),
    Resource("ConfigMap", "prometheus-server"), Resource("Secret", "prometheus-token"),
    Resource("Deployment", "prometheus-server"), Resource("Service", "prometheus-server") }

BackupNames == {"", "nightly"}

BackupInit ==
  [backups |-> <<>>, restores |-> <<>>, loading |-> TRUE, selectedResources |-> <<>>,
   backupName |-> "", namespaces |-> <<>>, selectedNamespace |-> "all"]

BackupMockTimerFires(i) ==
  /\ CanFire(i)
  /\ timers[i].kind = "backupLoad"
  /\ timers' = RemoveAt(timers, i)
  /\ backup' = IF Live(timers[i])
               THEN [backup EXCEPT !.backups = mockBackups, !.restores = mockRestores,
                                   !.namespaces = mockNamespaces,
                                   !.selectedResources = mockSelectedResources,
                                   !.loading = FALSE]
               ELSE backup
  /\ UNCHANGED <<route, epoch, requests, nextReq, dash, pred, sec, cost, rem, settings>>

SameResource(r, resource) == r.name = resource.name /\ r.kind = resource.kind

\* a check box of the resource list (rendered once loaded)
handleSelectResource(resource) ==
  /\ Page = "BackupManager"
  /\ ~backup.loading
  /\ resource \in OfferedResources
  /\ backup' =
       [backup EXCEPT !.selectedResources =
          IF \E i \in DOMAIN @ : SameResource(@[i], resource)
          THEN Filter(@, LAMBDA r : ~SameResource(r, resource))
          ELSE Append(@, resource)]
  /\ UNCHANGED <<route, epoch, timers, requests, nextReq, dash, pred, sec, cost, rem, settings>>

BackupSetName(name) ==
  /\ Page = "BackupManager"
  /\ name \in BackupNames
  /\ backup' = [backup EXCEPT !.backupName = name]
  /\ UNCHANGED <<route, epoch, timers, requests, nextReq, dash, pred, sec, cost, rem, settings>>

\* the namespace select offers "all" and the loaded namespaces
BackupSetNamespace(ns) ==
  /\ Page = "BackupManager"
  /\ ns \in {"all"} \cup Range(backup.namespaces)
  /\ backup' = [backup EXCEPT !.selectedNamespace = ns]
  /\ UNCHANGED <<route, epoch, timers, requests, nextReq, dash, pred, sec, cost, rem, settings>>

\* Create Backup and Restore only raise an alert
handleCreateBackup ==
  /\ Page = "BackupManager"
  /\ UNCHANGED vars

\* a Restore handler that marks the backup in the list
handleRestoreMarks(backupId) ==
  /\ Page = "BackupManager"
  /\ ~backup.loading
  /\ \E i \in DOMAIN backup.backups :
       /\ backup.backups[i].id = backupId
       /\ backup' = [backup EXCEPT !.backups[i].status = "restoring"]
  /\ UNCHANGED <<route, epoch, timers, requests, nextReq, dash, pred, sec, cost, rem, settings>>

handleRestore(backupId) ==
  /\ Page = "BackupManager"
  /\ ~backup.loading
  /\ \E i \in DOMAIN backup.backups : backup.backups[i].id = backupId
  /\ UNCHANGED vars

(***************************************************************************)
(* Settings (pages/Settings.js, lines 1-534).                              *)
(***************************************************************************)
defaultSettings ==
  [cpuUsageCritical |-> 90, cpuUsageWarning |-> 80, memoryUsageCritical |-> 90,
   memoryUsageWarning |-> 80, podRestartThreshold |-> 5, predictionWindow |-> 3600,
   scanInterval |-> 3600, enableVulnerabilityScans |-> TRUE,
   enableComplianceScans |-> TRUE, enableMisconfigScans |-> TRUE,
   costAnalysisInterval |-> 86400, optimizationThreshold |-> 20,
   autoBackupEnabled |-> TRUE, backupInterval |-> 86400, backupRetention |-> 7,
   autoRemediateEnabled |-> FALSE, autoRemediateHighCpu |-> TRUE,
   autoRemediateHighMemory |-> TRUE, autoRemediatePodRestarts |-> FALSE,
   kubernetesApiUrl |-> "https://kubernetes.default.svc", loggingLevel |-> "info",
   telemetryEnabled |-> TRUE, uiRefreshRate |-> 30]

SettingsInit ==
  [settings |-> defaultSettings, loading |-> TRUE, saving |-> FALSE,
   activeTab |-> "predictor"]

SettingsTabs == {"predictor", "security", "cost", "backup", "remediator", "system"}

\* the inputs each render function puts on the form: name, type, min, max
\* (NoBound where the input declares none)
NoBound == -1

Input(tab, name, type, min, max) ==
  [tab |-> tab, name |-> name, type |-> type, min |-> min, max |-> max]

FormInputs ==
  { Input("predictor", "cpuUsageCritical", "number", 1, 100),
    Input("predictor", "cpuUsageWarning", "number", 1, 100),
    Input("predictor", "memoryUsageCritical", "number", 1, 100),
    Input("predictor", "memoryUsageWarning", "number", 1, 100),
    Input("predictor", "podRestartThreshold", "number", 1, NoBound),
    Input("predictor", "predictionWindow", "number", 300, NoBound),
    Input("security", "scanInterval", "number", 300, NoBound),
    Input("security", "enableVulnerabilityScans", "checkbox", NoBound, NoBound),
    Input("security", "enableComplianceScans", "checkbox", NoBound, NoBound),
    Input("security", "enableMisconfigScans", "checkbox", NoBound, NoBound),
    Input("cost", "costAnalysisInterval", "number", 3600, NoBound),
    Input("cost", "optimizationThreshold", "number", 5, 50),
    Input("backup", "autoBackupEnabled", "checkbox", NoBound, NoBound),
    Input("backup", "backupInterval", "number", 3600, NoBound),
    Input("backup", "backupRetention", "number", 1, 90),
    Input("remediator", "autoRemediateEnabled", "checkbox", NoBound, NoBound),
    Input("remediator", "autoRemediateHighCpu", "checkbox", NoBound, NoBound),
    Input("remediator", "autoRemediateHighMemory", "checkbox", NoBound, NoBound),
    Input("remediator", "autoRemediatePodRestarts", "checkbox", NoBound, NoBound),
    Input("system", "kubernetesApiUrl", "text", NoBound, NoBound),
    Input("system", "loggingLevel", "select", NoBound, NoBound),
    Input("system", "telemetryEnabled", "checkbox", NoBound, NoBound),
    Input("system", "uiRefreshRate", "number", 5, 300) }

\* the three per-issue check boxes are disabled unless autoRemediateEnabled
Disabled(input) ==
  /\ input.name \in {"autoRemediateHighCpu", "autoRemediateHighMemory",
                     "autoRemediatePodRestarts"}
  /\ ~settings.settings.autoRemediateEnabled

\* what a user can leave in an input: e.target.value (a string)
TypedValues(input) ==
  CASE input.type = "number" -> {"", "50", "5000"}
    [] input.type = "text" -> {"https://kubernetes.default.svc", "https://k8s.local"}
    [] input.type = "select" -> {"debug", "info", "warning", "error"}
    [] OTHER -> {"on"}

\* Number(value) for the strings a number input yields
Number(value) ==
  CASE value = "" -> 0
    [] value = "50" -> 50
    [] value = "5000" -> 5000

\* the fields that differ from the defaults
Edited(st) == {f \in DOMAIN st : st[f] # defaultSettings[f]}

\* handleChange(e), e.target being a rendered, enabled input of the active tab
handleChange(input, value) ==
  /\ Page = "Settings"
  /\ ~settings.loading
  /\ input \in FormInputs
  /\ input.tab = settings.activeTab
  /\ ~Disabled(input)
  /\ value \in TypedValues(input)
  /\ LET checked == ~settings.settings[input.name]
         new == [settings.settings EXCEPT ![input.name] =
                   IF input.type = "checkbox" THEN checked
                   ELSE IF input.type = "number" THEN Number(value)
                   ELSE value]
     IN /\ Cardinality(Edited(new)) <= MaxEdits
        /\ settings' = [settings EXCEPT !.settings = new]
  /\ UNCHANGED <<route, epoch, timers, requests, nextReq, dash, pred, sec, cost, backup, rem>>

SettingsSetActiveTab(tab) ==
  /\ Page = "Settings"
  /\ ~settings.loading
  /\ tab \in SettingsTabs
  /\ settings' = [settings EXCEPT !.activeTab = tab]
  /\ UNCHANGED <<route, epoch, timers, requests, nextReq, dash, pred, sec, cost, backup, rem>>

\* a save that raises the loading flag instead of the saving flag
handleSaveLoading ==
  /\ Page = "Settings"
  /\ ~settings.loading
  /\ ~settings.saving
  /\ Len(timers) < MaxTimers
  /\ settings' = [settings EXCEPT !.loading = TRUE]
  /\ timers' = Append(timers, Timer("save", SaveDelay, None, <<>>))
  /\ UNCHANGED <<route, epoch, requests, nextReq, dash, pred, sec, cost, backup, rem>>

\* Save Settings (disabled while saving)
handleSave ==
  /\ Page = "Settings"
  /\ ~settings.loading
  /\ ~settings.saving
  /\ Len(timers) < MaxTimers
  /\ settings' = [settings EXCEPT !.saving = TRUE]
  /\ timers' = Append(timers, Timer("save", SaveDelay, None, <<>>))
  /\ UNCHANGED <<route, epoch, requests, nextReq, dash, pred, sec, cost, backup, rem>>

SaveTimerFires(i) ==
  /\ CanFire(i)
  /\ timers[i].kind = "save"
  /\ timers' = RemoveAt(timers, i)
  /\ settings' = IF Live(timers[i]) THEN [settings EXCEPT !.saving = FALSE] ELSE settings
  /\ UNCHANGED <<route, epoch, requests, nextReq, dash, pred, sec, cost, backup, rem>>

\* the effect's setTimeout callback: setLoading(false)
SettingsMockTimerFires(i) ==
  /\ CanFire(i)
  /\ timers[i].kind = "settingsLoad"
  /\ timers' = RemoveAt(timers, i)
  /\ settings' = IF Live(timers[i]) THEN [settings EXCEPT !.loading = FALSE] ELSE settings
  /\ UNCHANGED <<route, epoch, requests, nextReq, dash, pred, sec, cost, backup, rem>>

(***************************************************************************)
(* Network.  The REST wrappers (api/*.js) issue one request each and pass  *)
(* the response body or the failure on to the caller.  An asynchronous     *)
(* function that awaits responses is an entry of requests: its requests,   *)
(* each pending, ok (with the body) or failed, and whether its             *)
(* continuation has run.  A response is tagged with the number of the      *)
(* request it answers.                                                     *)
(***************************************************************************)
NoBody == [empty |-> TRUE]

Req(endpoint, id) == [endpoint |-> endpoint, id |-> id, status |-> "pending", body |-> NoBody]

OpAt(e, name, reqs) == [op |-> name, epoch |-> e, reqs |-> reqs, done |-> FALSE]

Op(name, reqs) == OpAt(epoch, name, reqs)

\* the bodies the backend may answer with, per wrapper
Node(cpu, mem) == [cpu_usage |-> cpu, memory_usage |-> mem]

Bodies(endpoint) ==
  CASE endpoint = "getMetrics" ->
         { [nodes |-> <<Node(40, 61), Node(71, 80)>>, pods |-> <<"p1", "p2", "p3">>] }
    [] endpoint = "getPredictions" ->
         { [issues |-> << [id |-> 1, type |-> "cpu", component |-> "node-1",
                           severity |-> "critical", timestamp |-> "t1",
                           description |-> "high cpu"] >>] }
    [] endpoint = "getModelInfo" -> { [name |-> "isolation_forest"] }
    [] endpoint = "getScanResults" -> { [vulnerabilities |-> 3, misconfigurations |-> 2] }
    [] endpoint = "getCostAnalysis" ->
         { [monthlyCost |-> 120, potentialSavings |-> 30, efficiency |-> 75] }
    [] endpoint = "getBackups" -> { <<[timestamp |-> "t9"]>> }
    [] endpoint = "getBackupSchedule" -> { [enabled |-> TRUE, nextBackup |-> "t10"] }
    [] OTHER -> { [job_id |-> "job-1"] }

Pending(o) == {k \in DOMAIN o.reqs : o.reqs[k].status = "pending"}

\* a call without the .catch: the failure reaches Promise.all
CaughtNothing(r) == r

\* backupService.getBackupSchedule().catch(() => ({ enabled: false }))
Caught(r) ==
  IF r.endpoint = "getBackupSchedule" /\ r.status = "failed"
  THEN [r EXCEPT !.status = "ok", !.body = [enabled |-> FALSE]]
  ELSE r

\* what the await of the operation yields: a single request or a Promise.all
Rejected(o) == \E k \in DOMAIN o.reqs : Caught(o.reqs[k]).status = "failed"
Resolved(o) == \A k \in DOMAIN o.reqs : Caught(o.reqs[k]).status = "ok"
Result(o, k) == [req |-> o.reqs[k].id, body |-> Caught(o.reqs[k]).body]

\* body.field || 0
OrZero(body, field) == IF field \in DOMAIN body /\ body[field] # 0 THEN body[field] ELSE 0

(***************************************************************************)
(* The REST wrappers themselves (api/*.js).  A wrapper is its name, the    *)
(* method of the HTTP client it calls, its path as a list of segments      *)
(* ("{id}" where the template inserts the first argument), the query       *)
(* parameter it appends, the default of its argument and what it sends.    *)
(***************************************************************************)
Undefined == "undefined"

Wrapper(module, name, method, path, query, default, data) ==
  [module |-> module, name |-> name, method |-> method, path |-> path,
   query |-> query, default |-> default, data |-> data]

predictorService ==
  { Wrapper("predictor", "getMetrics", "get", <<"predictor", "metrics">>, None, Undefined, None),
    Wrapper("predictor", "getPredictions", "get", <<"predictor", "predictions">>,
            None, Undefined, None),
    Wrapper("predictor", "getHistoricalMetrics", "get", <<"predictor", "metrics", "history">>,
            "timespan", "24h", None),
    Wrapper("predictor", "trainModel", "post", <<"predictor", "model", "train">>,
            None, Undefined, "params"),
    Wrapper("predictor", "getModelInfo", "get", <<"predictor", "model", "info">>,
            None, Undefined, None) }

costService ==
  { Wrapper("cost", "getCostAnalysis", "get", <<"cost", "analysis">>, None, Undefined, None),
    Wrapper("cost", "getOptimizationSuggestions", "get", <<"cost", "suggestions">>,
            None, Undefined, None),
    Wrapper("cost", "getResourceUtilization", "get", <<"cost", "utilization">>,
            None, Undefined, None),
    Wrapper("cost", "applyOptimization", "post", <<"cost", "optimize", "{id}">>,
            None, Undefined, None),
    Wrapper("cost", "getCostHistory", "get", <<"cost", "history">>, "timespan", "30d", None),
    Wrapper("cost", "getCloudProviderDetails", "get", <<"cost", "cloud", "details">>,
            None, Undefined, None) }

remediatorService ==
  { Wrapper("remediator", "getIssues", "get", <<"remediator", "issues">>, None, Undefined, None),
    Wrapper("remediator", "getRemediationSuggestions", "get",
            <<"remediator", "issues", "{id}", "suggestions">>, None, Undefined, None),
    Wrapper("remediator", "applyRemediation", "post",
            <<"remediator", "issues", "{id}", "remediate">>, None, Undefined, "remediationId"),
    Wrapper("remediator", "getRemediationHistory", "get", <<"remediator", "history">>,
            None, Undefined, None),
    Wrapper("remediator", "getRemediationDetails", "get",
            <<"remediator", "remediation", "{id}">>, None, Undefined, None),
    Wrapper("remediator", "setAutoRemediationSettings", "put",
            <<"remediator", "settings", "auto">>, None, Undefined, "params"),
    Wrapper("remediator", "getAutoRemediationSettings", "get",
            <<"remediator", "settings", "auto">>, None, Undefined, None) }

securityService ==
  { Wrapper("security", "getScanResults", "get", <<"security", "scan", "results">>,
            None, Undefined, None),
    Wrapper("security", "startScan", "post", <<"security", "scan", "start">>,
            None, "{}", "params"),
    Wrapper("security", "getVulnerabilities", "get", <<"security", "vulnerabilities">>,
            "severity", "all", None),
    Wrapper("security", "getMisconfigurations", "get", <<"security", "misconfigurations">>,
            None, Undefined, None),
    Wrapper("security", "getComplianceIssues", "get", <<"security", "compliance">>,
            None, Undefined, None),
    Wrapper("security", "getScanHistory", "get", <<"security", "scan", "history">>,
            None, Undefined, None) }

backupService ==
  { Wrapper("backup", "getBackups", "get", <<"backup", "list">>, None, Undefined, None),
    Wrapper("backup", "getBackupDetails", "get", <<"backup", "{id}">>, None, Undefined, None),
    Wrapper("backup", "createBackup", "post", <<"backup", "create">>, None, Undefined, "params"),
    Wrapper("backup", "restoreFromBackup", "post", <<"backup", "{id}", "restore">>,
            None, Undefined, "params2"),
    Wrapper("backup", "deleteBackup", "delete", <<"backup", "{id}">>, None, Undefined, None),
    Wrapper("backup", "getRestoreJobs", "get", <<"backup", "restore", "jobs">>,
            None, Undefined, None),
    Wrapper("backup", "getBackupSchedule", "get", <<"backup", "schedule">>,
            None, Undefined, None),
    Wrapper("backup", "updateBackupSchedule", "put", <<"backup", "schedule">>,
            None, Undefined, "params") }

Wrappers ==
  predictorService \cup costService \cup remediatorService \cup securityService
    \cup backupService

\* the value of a parameter: its default when the argument is undefined
Param(w, arg) == IF arg = Undefined THEN w.default ELSE arg

\* a leaves-the-placeholder substitution
UrlPathTemplate(w, arg) == w.path

\* the template literal: the first argument in the place of ${...}
UrlPath(w, arg) == [i \in DOMAIN w.path |-> IF w.path[i] = "{id}" THEN arg ELSE w.path[i]]

\* the request a wrapper hands to the HTTP client
Request(w, arg, arg2, id) ==
  [endpoint |-> w.name, id |-> id, status |-> "pending", body |-> NoBody,
   method |-> w.method, path |-> UrlPath(w, arg),
   query |-> IF w.query = None THEN None ELSE Param(w, arg),
   data |-> CASE w.data = "params" -> Param(w, arg)
              [] w.data = "params2" -> IF arg2 = Undefined THEN "{}" ELSE arg2
              [] w.data = "remediationId" -> arg2
              [] OTHER -> None]

\* the HTTP client's response object
Response(body) == [data |-> body, status |-> 200]

(***************************************************************************)
(* Dashboard (in pages/Settings.js, lines 535-1109).                       *)
(***************************************************************************)
Sections == {"cluster", "issues", "security", "cost", "backup"}

DashInit ==
  [clusterStatus |-> Null, issues |-> <<>>, securityIssues |-> Null,
   costOptimization |-> Null, backupStatus |-> Null,
   loading |-> [x \in Sections |-> TRUE],
   error |-> [x \in Sections |-> None]]

NaN == -1

\* Math.round(total / count) for non-negative integers
RoundDiv(total, count) == IF count = 0 THEN NaN ELSE (2 * total + count) \div (2 * count)

RECURSIVE Total(_, _)
Total(nodes, field) == IF nodes = <<>> THEN 0 ELSE Head(nodes)[field] + Total(Tail(nodes), field)

ToClusterStatus(metrics) ==
  LET nodes == Len(metrics.nodes)
      pods == Len(metrics.pods)
  IN [status |-> "running", name |-> "kagent-cluster", nodes |-> nodes, pods |-> pods,
      cpuUsage |-> RoundDiv(Total(metrics.nodes, "cpu_usage"), nodes),
      memoryUsage |-> RoundDiv(Total(metrics.nodes, "memory_usage"), nodes),
      uptime |-> "2d 5h"]

ToIssues(predictions) ==
  Map(predictions.issues, LAMBDA issue :
        [id |-> issue.id, type |-> issue.type, component |-> issue.component,
         severity |-> issue.severity, timestamp |-> issue.timestamp])

ToSecurityIssues(securityData) ==
  [vulnerabilities |-> OrZero(securityData, "vulnerabilities"),
   misconfigurations |-> OrZero(securityData, "misconfigurations"),
   compliance |-> OrZero(securityData, "compliance_issues")]

ToCostOptimization(costData) ==
  [monthlyCost |-> OrZero(costData, "monthlyCost"),
   potentialSavings |-> OrZero(costData, "potentialSavings"),
   efficiency |-> OrZero(costData, "efficiency")]

ToBackupStatus(backups, schedule) ==
  [lastBackup |-> IF Len(backups) > 0 THEN backups[1].timestamp ELSE "now-86400000",
   totalBackups |-> Len(backups),
   scheduled |-> schedule.enabled,
   nextBackup |-> IF "nextBackup" \in DOMAIN schedule THEN schedule.nextBackup
                  ELSE "now+3600000"]

DashSection(o) ==
  CASE o.op = "fetchClusterStatus" -> "cluster"
    [] o.op = "fetchIssues" -> "issues"
    [] o.op = "fetchSecurityIssues" -> "security"
    [] o.op = "fetchCostOptimization" -> "cost"
    [] o.op = "fetchBackupStatus" -> "backup"

DashErrorText(x) ==
  CASE x = "cluster" -> "Failed to load cluster status"
    [] x = "issues" -> "Failed to load issues"
    [] x = "security" -> "Failed to load security data"
    [] x = "cost" -> "Failed to load cost data"
    [] x = "backup" -> "Failed to load backup data"

\* setLoading(prev => ({ ...prev, [x]: v })) and setError(prev => ({ ...prev, [x]: v }))
SetFlag(cell, x, v) == [cell EXCEPT ![x] = v]

\* the try block after the await: the section's data
DashData(d, o) ==
  CASE o.op = "fetchClusterStatus" ->
         [d EXCEPT !.clusterStatus = ToClusterStatus(Result(o, 1).body)]
    [] o.op = "fetchIssues" -> [d EXCEPT !.issues = ToIssues(Result(o, 1).body)]
    [] o.op = "fetchSecurityIssues" ->
         [d EXCEPT !.securityIssues = ToSecurityIssues(Result(o, 1).body)]
    [] o.op = "fetchCostOptimization" ->
         [d EXCEPT !.costOptimization = ToCostOptimization(Result(o, 1).body)]
    [] o.op = "fetchBackupStatus" ->
         [d EXCEPT !.backupStatus = ToBackupStatus(Result(o, 1).body, Result(o, 2).body)]

\* a finally block that clears every loading flag, as refreshData's does
DashContinueWholesale(d, o) ==
  LET x == DashSection(o)
      tried == IF Resolved(o)
               THEN [DashData(d, o) EXCEPT !.error = SetFlag(@, x, None)]
               ELSE [d EXCEPT !.error = SetFlag(@, x, DashErrorText(x))]
  IN [tried EXCEPT !.loading = [y \in Sections |-> FALSE]]

\* the continuation of a Dashboard fetch: try / catch / finally
DashContinue(d, o) ==
  LET x == DashSection(o)
      tried == IF Resolved(o)
               THEN [DashData(d, o) EXCEPT !.error = SetFlag(@, x, None)]
               ELSE [d EXCEPT !.error = SetFlag(@, x, DashErrorText(x))]
  IN [tried EXCEPT !.loading = SetFlag(@, x, FALSE)]

\* the five effects of the mount, each up to its await
DashMountOps(e, first) ==
  { OpAt(e, "fetchClusterStatus", <<Req("getMetrics", first)>>),
    OpAt(e, "fetchIssues", <<Req("getPredictions", first + 1)>>),
    OpAt(e, "fetchSecurityIssues", <<Req("getScanResults", first + 2)>>),
    OpAt(e, "fetchCostOptimization", <<Req("getCostAnalysis", first + 3)>>),
    OpAt(e, "fetchBackupStatus",
         <<Req("getBackups", first + 4), Req("getBackupSchedule", first + 5)>>) }

DashFetchOps ==
  {"fetchClusterStatus", "fetchIssues", "fetchSecurityIssues", "fetchCostOptimization",
   "fetchBackupStatus"}

\* error.x && <li>...</li>: null and the empty string render nothing
Truthy(e) == e # None /\ e # ""

\* the error list the page renders (the page shows a spinner alone while all
\* five sections are loading)
DashErrorList ==
  LET order == <<"cluster", "issues", "security", "cost", "backup">>
  IN IF Page = "Dashboard" /\ ~(\A x \in Sections : dash.loading[x])
     THEN Map(Filter(order, LAMBDA x : Truthy(dash.error[x])), LAMBDA x : dash.error[x])
     ELSE <<>>

(***************************************************************************)
(* PredictorAgent (unnamed/part_000).                                      *)
(***************************************************************************)
Cells == {"metrics", "predictions", "modelInfo"}

PredInit ==
  [metrics |-> Null, predictions |-> Null, modelInfo |-> Null,
   loading |-> [x \in Cells |-> TRUE],
   error |-> [x \in Cells |-> None],
   activeTab |-> "issues"]

PredTabs == {"issues", "metrics", "model"}

PredFetchOps == {"fetchMetrics", "fetchPredictions", "fetchModelInfo"}

PredCell(o) ==
  CASE o.op = "fetchMetrics" -> "metrics"
    [] o.op = "fetchPredictions" -> "predictions"
    [] o.op = "fetchModelInfo" -> "modelInfo"

PredErrorText(x) ==
  CASE x = "metrics" -> "Failed to load metrics data"
    [] x = "predictions" -> "Failed to load prediction data"
    [] x = "modelInfo" -> "Failed to load model information"

\* a catch block that only logs
FetchContinueSilent(p, o) ==
  LET x == PredCell(o)
      tried == IF Resolved(o)
               THEN [p EXCEPT ![x] = Result(o, 1), !.error = SetFlag(@, x, None)]
               ELSE p
  IN [tried EXCEPT !.loading = SetFlag(@, x, FALSE)]

\* the continuation of fetchMetrics / fetchPredictions / fetchModelInfo
FetchContinue(p, o) ==
  LET x == PredCell(o)
      tried == IF Resolved(o)
               THEN [p EXCEPT ![x] = Result(o, 1), !.error = SetFlag(@, x, None)]
               ELSE [p EXCEPT !.error = SetFlag(@, x, PredErrorText(x))]
  IN [tried EXCEPT !.loading = SetFlag(@, x, FALSE)]

\* a finally block that also clears the errors
RefreshContinueClears(p, o) ==
  LET tried == IF Resolved(o)
               THEN [p EXCEPT !.metrics = Result(o, 1), !.predictions = Result(o, 2),
                              !.modelInfo = Result(o, 3)]
               ELSE p
  IN [tried EXCEPT !.loading = [x \in Cells |-> FALSE], !.error = [x \in Cells |-> None]]

\* a refresh that stores whatever responses did arrive
RefreshContinuePartial(p, o) ==
  LET got(k, old) == IF Caught(o.reqs[k]).status = "ok" THEN Result(o, k) ELSE old
  IN [p EXCEPT !.metrics = got(1, @), !.predictions = got(2, @), !.modelInfo = got(3, @),
               !.error = IF Resolved(o) THEN [x \in Cells |-> None] ELSE @,
               !.loading = [x \in Cells |-> FALSE]]

\* the continuation of refreshData: the catch block only logs
RefreshContinue(p, o) ==
  LET tried == IF Resolved(o)
               THEN [p EXCEPT !.metrics = Result(o, 1), !.predictions = Result(o, 2),
                              !.modelInfo = Result(o, 3),
                              !.error = [x \in Cells |-> None]]
               ELSE p
  IN [tried EXCEPT !.loading = [x \in Cells |-> FALSE]]

\* a callback that handles its response as fetchModelInfo does
RefetchContinueAsFetch(p, o) ==
  LET tried == IF Resolved(o)
               THEN [p EXCEPT !.modelInfo = Result(o, 1), !.error = SetFlag(@, "modelInfo", None)]
               ELSE [p EXCEPT !.error = SetFlag(@, "modelInfo", PredErrorText("modelInfo"))]
  IN [tried EXCEPT !.loading = SetFlag(@, "modelInfo", FALSE)]

\* the callback of trainModel's timer after its await: no try around it
RefetchContinue(p, o) ==
  IF Resolved(o) THEN [p EXCEPT !.modelInfo = Result(o, 1)] ELSE p

PredContinue(p, o) ==
  CASE o.op \in PredFetchOps -> FetchContinue(p, o)
    [] o.op = "refreshData" -> RefreshContinue(p, o)
    [] o.op = "refetchModelInfo" -> RefetchContinue(p, o)
    [] OTHER -> p

PredMountOps(e, first) ==
  { OpAt(e, "fetchMetrics", <<Req("getMetrics", first)>>),
    OpAt(e, "fetchPredictions", <<Req("getPredictions", first + 1)>>),
    OpAt(e, "fetchModelInfo", <<Req("getModelInfo", first + 2)>>) }

\* the page shows a spinner alone while all three cells are loading
PredSpinnerOnly == \A x \in Cells : pred.loading[x]

PredErrorList ==
  LET order == <<"metrics", "predictions", "modelInfo">>
  IN IF Page = "PredictorAgent" /\ ~PredSpinnerOnly
     THEN Map(Filter(order, LAMBDA x : Truthy(pred.error[x])), LAMBDA x : pred.error[x])
     ELSE <<>>

\* the requests a mount of the page issues
MountRequests(page) ==
  CASE page = "Dashboard" -> 6
    [] page = "PredictorAgent" -> 3
    [] OTHER -> 0

\* room for n more requests within the bound of the model
Budget(n) == nextReq + n <= MaxReq + MountRequests(Page)

\* a timer that fetches the metrics once and is then gone
MetricsIntervalOnce(i) ==
  /\ CanFire(i)
  /\ timers[i].kind = "metricsInterval"
  /\ Budget(1)
  /\ timers' = RemoveAt(timers, i)
  /\ pred' = [pred EXCEPT !.loading = SetFlag(@, "metrics", TRUE)]
  /\ requests' = requests \cup {OpAt(timers[i].epoch, "fetchMetrics", <<Req("getMetrics", nextReq + 1)>>)}
  /\ nextReq' = nextReq + 1
  /\ UNCHANGED <<route, epoch, dash, sec, cost, backup, rem, settings>>

\* setInterval(fetchMetrics, 30000) ticks: fetchMetrics up to its await
MetricsIntervalFires(i) ==
  /\ CanFire(i)
  /\ timers[i].kind = "metricsInterval"
  /\ Budget(1)
  /\ timers' = Append(RemoveAt(timers, i), timers[i])
  /\ pred' = [pred EXCEPT !.loading = SetFlag(@, "metrics", TRUE)]
  /\ requests' = requests \cup {OpAt(timers[i].epoch, "fetchMetrics", <<Req("getMetrics", nextReq + 1)>>)}
  /\ nextReq' = nextReq + 1
  /\ UNCHANGED <<route, epoch, dash, sec, cost, backup, rem, settings>>

\* the Refresh Data button: refreshData up to its await
refreshData ==
  /\ Page = "PredictorAgent"
  /\ ~PredSpinnerOnly
  /\ Budget(3)
  /\ pred' = [pred EXCEPT !.loading = [x \in Cells |-> TRUE]]
  /\ requests' = requests \cup
       {Op("refreshData", <<Req("getMetrics", nextReq + 1), Req("getPredictions", nextReq + 2),
                            Req("getModelInfo", nextReq + 3)>>)}
  /\ nextReq' = nextReq + 3
  /\ UNCHANGED <<route, epoch, timers, dash, sec, cost, backup, rem, settings>>

\* trainModel operations that may still start their timer
Training == {o \in requests : o.op = "trainModel" /\ ~o.done}

\* the Start Training button of the model tab: trainModel up to its await
trainModel ==
  /\ Page = "PredictorAgent"
  /\ ~PredSpinnerOnly
  /\ pred.activeTab = "model"
  /\ pred.modelInfo # Null
  /\ Budget(2)
  /\ Len(timers) + Cardinality(Training) < MaxTimers
  /\ requests' = requests \cup {Op("trainModel", <<Req("trainModel", nextReq + 1)>>)}
  /\ nextReq' = nextReq + 1
  /\ UNCHANGED <<route, epoch, timers, dash, pred, sec, cost, backup, rem, settings>>

\* the timer of trainModel fires: getModelInfo is requested, mounted or not
RefetchTimerFires(i) ==
  /\ CanFire(i)
  /\ timers[i].kind = "refetch"
  /\ timers' = RemoveAt(timers, i)
  /\ requests' = requests \cup
       {OpAt(timers[i].epoch, "refetchModelInfo", <<Req("getModelInfo", nextReq + 1)>>)}
  /\ nextReq' = nextReq + 1
  /\ UNCHANGED <<route, epoch, dash, pred, sec, cost, backup, rem, settings>>

PredSetActiveTab(tab) ==
  /\ Page = "PredictorAgent"
  /\ ~PredSpinnerOnly
  /\ tab \in PredTabs
  /\ pred' = [pred EXCEPT !.activeTab = tab]
  /\ UNCHANGED <<route, epoch, timers, requests, nextReq, dash, sec, cost, backup, rem, settings>>

(***************************************************************************)
(* Dashboard quick actions: one request each, the outcome only alerted.    *)
(***************************************************************************)
DashQuickActions == {"runSecurityScan", "createBackup", "dashTrainModel"}

QuickEndpoint(name) ==
  CASE name = "runSecurityScan" -> "startScan"
    [] name = "createBackup" -> "createBackup"
    [] name = "dashTrainModel" -> "trainModel"

DashQuickAction(name) ==
  /\ Page = "Dashboard"
  /\ ~(\A x \in Sections : dash.loading[x])
  /\ name \in DashQuickActions
  /\ Budget(1)
  /\ Cardinality({o \in requests : o.op \in DashQuickActions}) < MaxQuick
  /\ requests' = requests \cup {Op(name, <<Req(QuickEndpoint(name), nextReq + 1)>>)}
  /\ nextReq' = nextReq + 1
  /\ UNCHANGED <<route, epoch, timers, dash, pred, sec, cost, backup, rem, settings>>

(***************************************************************************)
(* A response arrives: request k of operation o succeeds with a body or    *)
(* fails.  When that settles the operation's await, its continuation runs  *)
(* in the same turn; state setters of an unmounted instance do nothing.    *)
(***************************************************************************)
Settled(o, k, outcome, body) ==
  LET o1 == [o EXCEPT !.reqs[k].status = outcome, !.reqs[k].body = body]
  IN [o1 EXCEPT !.done = o.done \/ Rejected(o1) \/ Resolved(o1)]

\* request k of the operation o is answered; when that settles the await of
\* the operation, its continuation runs in the same step
Answer(o, k, outcome, body) ==
  /\ o \in requests
  /\ k \in Pending(o)
  /\ LET o2 == Settled(o, k, outcome, body)
         continues == ~o.done /\ o2.done
     IN /\ requests' = (requests \ {o}) \cup (IF Pending(o2) = {} THEN {} ELSE {o2})
        /\ dash' = IF continues /\ Live(o) /\ o.op \in DashFetchOps
                   THEN DashContinue(dash, o2) ELSE dash
        /\ pred' = IF continues /\ Live(o) THEN PredContinue(pred, o2) ELSE pred
        /\ timers' = IF continues /\ o.op = "trainModel" /\ Resolved(o2)
                     THEN Append(timers, TimerAt(o.epoch, "refetch", RefetchDelay, None, <<>>))
                     ELSE timers
  /\ UNCHANGED <<route, epoch, nextReq, sec, cost, backup, rem, settings>>

\* an answer the backend may give: one of the bodies of the endpoint, or a failure
Settle(o, k, outcome, body) ==
  /\ o \in requests
  /\ k \in Pending(o)
  /\ \/ outcome = "ok" /\ body \in Bodies(o.reqs[k].endpoint)
     \/ outcome = "failed" /\ body = NoBody
  /\ Answer(o, k, outcome, body)

(***************************************************************************)
(* Mounting and unmounting (App.js: one Route element is rendered).        *)
(***************************************************************************)
Paths == DOMAIN Routes

\* the timer the effects of a mounting page create
MountTimers(e, page) ==
  CASE page = "RemediatorAgent" -> <<TimerAt(e, "remLoad", MockDelay, None, <<>>)>>
    [] page = "CostOptimizer" ->
         <<TimerAt(e, "costLoad", MockDelay, None, mockOptimizations)>>
    [] page = "SecurityScanner" -> <<TimerAt(e, "secLoad", MockDelay, None, <<>>)>>
    [] page = "BackupManager" -> <<TimerAt(e, "backupLoad", MockDelay, None, <<>>)>>
    [] page = "Settings" -> <<TimerAt(e, "settingsLoad", MockDelay, None, <<>>)>>
    [] page = "PredictorAgent" -> <<TimerAt(e, "metricsInterval", MetricsInterval, None, <<>>)>>
    [] OTHER -> <<>>

\* the asynchronous functions the effects of a mounting page start
MountOps(e, page, first) ==
  CASE page = "Dashboard" -> DashMountOps(e, first)
    [] page = "PredictorAgent" -> PredMountOps(e, first)
    [] OTHER -> {}

\* a cleanup that clears every timer of the unmounting instance
CleanupAll(ts, e) == Filter(ts, LAMBDA t : t.epoch # e)

\* the effect cleanups of the unmounting instance: PredictorAgent's clearInterval
Cleanup(ts, e) == Filter(ts, LAMBDA t : ~(t.kind = "metricsInterval" /\ t.epoch = e))

\* every mounting component starts from its useState initial values
FreshPages ==
  /\ dash' = DashInit
  /\ pred' = PredInit
  /\ sec' = SecInit
  /\ cost' = CostInit
  /\ backup' = BackupInit
  /\ rem' = RemInit
  /\ settings' = SettingsInit

\* a Sidebar NavLink or a Link to another path: the mounted page unmounts (its
\* state is dropped) and the page of the new path mounts
Navigate(to) ==
  /\ to \in Paths
  /\ to # route
  /\ epoch < MaxMounts
  /\ Len(timers) < MaxTimers
  /\ route' = to
  /\ epoch' = epoch + 1
  /\ timers' = Cleanup(timers, epoch) \o MountTimers(epoch + 1, Routes[to])
  /\ requests' = requests \cup MountOps(epoch + 1, Routes[to], nextReq + 1)
  /\ nextReq' = nextReq + MountRequests(Routes[to])
  /\ FreshPages

\* a click on the i-th NavLink of the Sidebar
SidebarClick(i) == Navigate(navItems[i])

\* a document load of a path: nothing of the previous document survives
Load(to) ==
  /\ route' = to
  /\ epoch' = epoch
  /\ timers' = MountTimers(epoch, Routes[to])
  /\ requests' = MountOps(epoch, Routes[to], nextReq + 1)
  /\ nextReq' = nextReq + MountRequests(Routes[to])
  /\ FreshPages

\* the Reset button of the Settings form: window.location.reload()
SettingsReset ==
  /\ Page = "Settings"
  /\ ~settings.loading
  /\ Load(route)

\* the View Optimizations button of the Dashboard: window.location.href = '/cost'
viewOptimizations ==
  /\ Page = "Dashboard"
  /\ ~(\A x \in Sections : dash.loading[x])
  /\ Load("/cost")

(***************************************************************************)
(* The initial states: the document was loaded at some path and the page   *)
(* of that path has mounted.                                               *)
(***************************************************************************)
InitAt(path) ==
  /\ route = path
  /\ epoch = 0
  /\ timers = MountTimers(0, Routes[path])
  /\ requests = MountOps(0, Routes[path], 1)
  /\ nextReq = MountRequests(Routes[path])
  /\ dash = DashInit
  /\ pred = PredInit
  /\ sec = SecInit
  /\ cost = CostInit
  /\ backup = BackupInit
  /\ rem = RemInit
  /\ settings = SettingsInit

Init == \E path \in Paths : InitAt(path)

ResponseOk ==
  \E o \in requests : \E k \in DOMAIN o.reqs :
    \E body \in Bodies(o.reqs[k].endpoint) : Settle(o, k, "ok", body)

ResponseFailed ==
  \E o \in requests : \E k \in DOMAIN o.reqs : Settle(o, k, "failed", NoBody)

(***************************************************************************)
(* One page at a time: the document is loaded at the page's path and the   *)
(* user stays on it.                                                       *)
(***************************************************************************)
NextRemediator ==
  \/ \E i \in DOMAIN timers : RemMockTimerFires(i)
  \/ \E i \in DOMAIN timers : ExecuteTimerFires(i)
  \/ \E i \in DOMAIN mockActions : handleExecuteAction(mockActions[i].id)
  \/ handleToggleAutoRemediate
  \/ \E tab \in RemTabs : RemSetActiveTab(tab)

SpecRemediator == InitAt("/remediator") /\ [][NextRemediator]_vars

NextSettings ==
  \/ \E i \in DOMAIN timers : SettingsMockTimerFires(i)
  \/ \E i \in DOMAIN timers : SaveTimerFires(i)
  \/ \E input \in FormInputs : \E value \in TypedValues(input) : handleChange(input, value)
  \/ \E tab \in SettingsTabs : SettingsSetActiveTab(tab)
  \/ handleSave
  \/ SettingsReset

SpecSettings == InitAt("/settings") /\ [][NextSettings]_vars

NextBackup ==
  \/ \E i \in DOMAIN timers : BackupMockTimerFires(i)
  \/ \E resource \in OfferedResources : handleSelectResource(resource)
  \/ \E name \in BackupNames : BackupSetName(name)
  \/ \E ns \in {"all"} \cup Range(mockNamespaces) : BackupSetNamespace(ns)
  \/ handleCreateBackup
  \/ \E i \in DOMAIN mockBackups : handleRestore(mockBackups[i].id)

NextDashboard ==
  \/ ResponseOk
  \/ ResponseFailed
  \/ \E name \in DashQuickActions : DashQuickAction(name)

SpecDashboard == InitAt("/") /\ [][NextDashboard]_vars

NextPredictor ==
  \/ \E i \in DOMAIN timers : MetricsIntervalFires(i)
  \/ \E i \in DOMAIN timers : RefetchTimerFires(i)
  \/ ResponseOk
  \/ ResponseFailed
  \/ refreshData
  \/ trainModel
  \/ \E tab \in PredTabs : PredSetActiveTab(tab)

SpecPredictor == InitAt("/predictor") /\ [][NextPredictor]_vars

(***************************************************************************)
(* Navigation between PredictorAgent and RemediatorAgent: the user moves   *)
(* between them and executes the first mock action while the metrics       *)
(* refresh runs.                                                           *)
(***************************************************************************)
AsyncPaths == {"/predictor", "/remediator"}

NextAsync ==
  \/ \E to \in AsyncPaths : Navigate(to)
  \/ \E i \in DOMAIN timers : MetricsIntervalFires(i)
  \/ \E i \in DOMAIN timers : RemMockTimerFires(i)
  \/ \E i \in DOMAIN timers : ExecuteTimerFires(i)
  \/ ResponseOk
  \/ ResponseFailed
  \/ handleExecuteAction(mockActions[1].id)

SpecAsync == (\E path \in AsyncPaths : InitAt(path)) /\ [][NextAsync]_vars

(***************************************************************************)
(* Navigation between the pages that hold user input: RemediatorAgent,     *)
(* Settings (the user edits the remediator tab of the form) and            *)
(* BackupManager.                                                          *)
(***************************************************************************)
InputPaths == {"/remediator", "/settings", "/backup"}

NextInput ==
  \/ \E to \in InputPaths : Navigate(to)
  \/ \E i \in DOMAIN timers : RemMockTimerFires(i)
  \/ \E i \in DOMAIN timers : ExecuteTimerFires(i)
  \/ \E i \in DOMAIN timers : SettingsMockTimerFires(i)
  \/ \E i \in DOMAIN timers : SaveTimerFires(i)
  \/ \E i \in DOMAIN timers : BackupMockTimerFires(i)
  \/ \E i \in DOMAIN mockActions : handleExecuteAction(mockActions[i].id)
  \/ handleToggleAutoRemediate
  \/ \E input \in FormInputs : \E value \in TypedValues(input) :
       input.tab = "remediator" /\ handleChange(input, value)
  \/ SettingsSetActiveTab("remediator")
  \/ handleSave
  \/ \E resource \in OfferedResources : handleSelectResource(resource)

SpecInput == (\E path \in InputPaths : InitAt(path)) /\ [][NextInput]_vars

(***************************************************************************)
(* The two pages backed by REST calls, each loaded at its path.            *)
(***************************************************************************)
NextFetch ==
  \/ \E i \in DOMAIN timers : MetricsIntervalFires(i)
  \/ \E i \in DOMAIN timers : RefetchTimerFires(i)
  \/ ResponseOk
  \/ ResponseFailed
  \/ refreshData
  \/ trainModel
  \/ \E tab \in PredTabs : PredSetActiveTab(tab)
  \/ \E name \in DashQuickActions : DashQuickAction(name)

SpecFetch == (InitAt("/") \/ InitAt("/predictor")) /\ [][NextFetch]_vars

(***************************************************************************)
(* The five pages that show mock data behind a simulated delay.            *)
(***************************************************************************)
MockPaths == {"/security", "/cost", "/backup", "/remediator", "/settings"}

NextSecurity ==
  \/ \E i \in DOMAIN timers : SecMockTimerFires(i)
  \/ \E f \in SecFilters : SecSetFilter(f)

NextCost == \E i \in DOMAIN timers : CostMockTimerFires(i)

NextMock ==
  \/ NextRemediator
  \/ NextSettings
  \/ NextSecurity
  \/ NextCost
  \/ NextBackup

SpecMock == (\E path \in MockPaths : InitAt(path)) /\ [][NextMock]_vars

\* a pending timer fires after its delay
TimersElapse ==
  /\ WF_vars(\E i \in DOMAIN timers : RemMockTimerFires(i))
  /\ WF_vars(\E i \in DOMAIN timers : CostMockTimerFires(i))
  /\ WF_vars(\E i \in DOMAIN timers : SecMockTimerFires(i))
  /\ WF_vars(\E i \in DOMAIN timers : BackupMockTimerFires(i))
  /\ WF_vars(\E i \in DOMAIN timers : SettingsMockTimerFires(i))

SpecMockFair == SpecMock /\ TimersElapse

(***************************************************************************)
(* Every page, each loaded at its path: no navigation.                     *)
(***************************************************************************)
NextPages ==
  \/ NextMock
  \/ NextFetch

SpecPages == Init /\ [][NextPages]_vars

(***************************************************************************)
(* The whole application: every page, navigation and document loads.       *)
(***************************************************************************)
Next ==
  \/ \E to \in Paths : Navigate(to)
  \/ NextPages
  \/ viewOptimizations

Spec == Init /\ [][Next]_vars

(***************************************************************************)
(* The filters as functions of their inputs: the page holds an arbitrary   *)
(* list (as a backend would deliver it) and the user picks the tabs.       *)
(***************************************************************************)
RECURSIVE ListsOver(_, _)
ListsOver(S, n) ==
  IF n = 0 THEN {<<>>}
  ELSE LET shorter == ListsOver(S, n - 1)
       IN shorter \cup {Append(l, x) : l \in {m \in shorter : Len(m) = n - 1}, x \in S}

Statuses == {"pending", "in-progress", "completed", "failed"}

\* a list of actions with the given statuses
ActionsOf(statuses) ==
  [i \in DOMAIN statuses |-> Action(mockActions[i].id, statuses[i], None, None, None)]

\* the page of the path has loaded and no timer or request is pending
Loaded(path) ==
  /\ route = path
  /\ epoch = 0
  /\ timers = <<>>
  /\ requests = {}
  /\ nextReq = 0

InitFilterActions ==
  /\ Loaded("/remediator")
  /\ \E statuses \in ListsOver(Statuses, MaxLen) :
       rem = [RemInit EXCEPT !.actions = ActionsOf(statuses), !.loading = FALSE]
  /\ dash = DashInit
  /\ pred = PredInit
  /\ sec = SecInit
  /\ cost = CostInit
  /\ backup = BackupInit
  /\ settings = SettingsInit

NextFilterActions ==
  \/ \E tab \in RemTabs : RemSetActiveTab(tab)
  \/ \E i \in DOMAIN mockActions : handleExecuteAction(mockActions[i].id)
  \/ \E i \in DOMAIN timers : ExecuteTimerFires(i)

SpecFilterActions == InitFilterActions /\ [][NextFilterActions]_vars

IssueTypes == {"vulnerability", "misconfiguration", "compliance"}

\* a list of issues of the given kinds
IssuesOf(kinds) == [i \in DOMAIN kinds |-> Issue(i, kinds[i][1], kinds[i][2])]

InitFilterIssues ==
  /\ Loaded("/security")
  /\ \E kinds \in ListsOver(IssueTypes \X Severities, MaxLen) :
       sec = [SecInit EXCEPT !.securityIssues = IssuesOf(kinds), !.loading = FALSE]
  /\ dash = DashInit
  /\ pred = PredInit
  /\ cost = CostInit
  /\ backup = BackupInit
  /\ rem = RemInit
  /\ settings = SettingsInit

NextFilterIssues == \E f \in SecFilters : SecSetFilter(f)

SpecFilterIssues == InitFilterIssues /\ [][NextFilterIssues]_vars

\* pairs of current and potential cost, in cents
CostPairs == {<<1540, 770>>, <<1850, 1233>>, <<7000, 5000>>, <<820, 820>>}

\* a list of optimizations with the given costs
OptimizationsOf(pairs) == [i \in DOMAIN pairs |-> Optimization(i, pairs[i][1], pairs[i][2])]

\* CostOptimizer has mounted and its callback holds a non-empty list
InitCostSummary ==
  /\ route = "/cost"
  /\ epoch = 0
  /\ \E pairs \in ListsOver(CostPairs, MaxLen) \ {<<>>} :
       timers = <<TimerAt(0, "costLoad", MockDelay, None, OptimizationsOf(pairs))>>
  /\ requests = {}
  /\ nextReq = 0
  /\ dash = DashInit
  /\ pred = PredInit
  /\ sec = SecInit
  /\ cost = CostInit
  /\ backup = BackupInit
  /\ rem = RemInit
  /\ settings = SettingsInit

SpecCostSummary == InitCostSummary /\ [][NextCost]_vars

(***************************************************************************)
(* The router alone: the document is loaded at any path and the user       *)
(* clicks Sidebar links.                                                   *)
(***************************************************************************)
NextRouter == \E i \in DOMAIN navItems : SidebarClick(i)

SpecRouter == Init /\ [][NextRouter]_vars

(***************************************************************************)
(* The REST wrappers called on their own: a caller awaits one wrapper at a *)
(* time; the settled call stays in requests with what the wrapper returned *)
(* or that it threw, until the next call replaces it.                      *)
(***************************************************************************)
Args == {Undefined, "x1", "x2"}

InitClient ==
  /\ Loaded("/settings")
  /\ dash = DashInit
  /\ pred = PredInit
  /\ sec = SecInit
  /\ cost = CostInit
  /\ backup = BackupInit
  /\ rem = RemInit
  /\ settings = [SettingsInit EXCEPT !.loading = FALSE]

\* const response = await api.<method>(...)
Call(w, arg, arg2) ==
  /\ nextReq < MaxReq
  /\ \A o \in requests : o.done
  /\ requests' = { [op |-> w.name, epoch |-> epoch,
                    reqs |-> <<Request(w, arg, arg2, nextReq)>>, done |-> FALSE,
                    returned |-> NoBody, threw |-> FALSE] }
  /\ nextReq' = nextReq + 1
  /\ UNCHANGED <<route, epoch, timers, dash, pred, sec, cost, backup, rem, settings>>

\* return response.data, or the rejection of the await leaves the wrapper
Returns(o, outcome, body) ==
  /\ o \in requests
  /\ ~o.done
  /\ \/ outcome = "ok" /\ body \in Bodies(o.op)
     \/ outcome = "failed" /\ body = NoBody
  /\ requests' = (requests \ {o}) \cup
       { [o EXCEPT !.reqs[1].status = outcome, !.reqs[1].body = body, !.done = TRUE,
                   !.returned = IF outcome = "ok" THEN Response(body).data ELSE NoBody,
                   !.threw = (outcome = "failed")] }
  /\ UNCHANGED <<route, epoch, timers, nextReq, dash, pred, sec, cost, backup, rem, settings>>

NextClient ==
  \/ \E w \in Wrappers : \E arg, arg2 \in Args : Call(w, arg, arg2)
  \/ \E o \in requests : \E body \in Bodies(o.op) : Returns(o, "ok", body)
  \/ \E o \in requests : Returns(o, "failed", NoBody)

SpecClient == InitClient /\ [][NextClient]_vars

(***************************************************************************)
(* The Dashboard's cluster section as a function of the metrics response:  *)
(* the Dashboard has mounted and its metrics request is answered with any  *)
(* of the responses below.                                                 *)
(***************************************************************************)
\* cpu_usage and memory_usage of a node, in percent
NodeUsages == {<<0, 0>>, <<0, 100>>, <<100, 100>>, <<1, 2>>, <<50, 33>>}

\* metrics responses with up to MaxLen nodes and up to two pods
MetricsResponses ==
  { [nodes |-> [i \in DOMAIN usages |-> Node(usages[i][1], usages[i][2])], pods |-> pods] :
      usages \in ListsOver(NodeUsages, MaxLen), pods \in {<<>>, <<"p1">>, <<"p1", "p2">>} }

\* const metrics = await predictorService.getMetrics() of fetchClusterStatus
ClusterStatusResponse(metrics) ==
  \E o \in requests : o.op = "fetchClusterStatus" /\ Answer(o, 1, "ok", metrics)

NextClusterStatus == \E metrics \in MetricsResponses : ClusterStatusResponse(metrics)

SpecClusterStatus == InitAt("/") /\ [][NextClusterStatus]_vars

(***************************************************************************)
(* Leaving PredictorAgent while its work is pending: the user trains the   *)
(* model and moves between PredictorAgent and RemediatorAgent.             *)
(***************************************************************************)
NextUnmount ==
  \/ \E to \in AsyncPaths : Navigate(to)
  \/ \E i \in DOMAIN timers : RefetchTimerFires(i)
  \/ \E i \in DOMAIN timers : RemMockTimerFires(i)
  \/ ResponseOk
  \/ ResponseFailed
  \/ PredSetActiveTab("model")
  \/ trainModel

SpecUnmount == InitAt("/predictor") /\ [][NextUnmount]_vars

(***************************************************************************)
(* Properties.                                                             *)
(***************************************************************************)
\* request k of the operation o of the mounted page fails in this step
FailStep(o, k) == Settle(o, k, "failed", NoBody) /\ Live(o)

\* request k of the operation o succeeds in this step and the await resolves
ResolveStep(o, k) ==
  \E body \in Bodies(o.reqs[k].endpoint) :
    /\ Settle(o, k, "ok", body)
    /\ Live(o)
    /\ ~o.done
    /\ Resolved(Settled(o, k, "ok", body))

\* the cell a failed request of a PredictorAgent operation belongs to
CellOf(endpoint) ==
  CASE endpoint = "getMetrics" -> "metrics"
    [] endpoint = "getPredictions" -> "predictions"
    [] endpoint = "getModelInfo" -> "modelInfo"
    [] OTHER -> None

\* the operations of the two pages that load data
Fetchers == DashFetchOps \cup PredFetchOps \cup {"refreshData", "refetchModelInfo"}

\* C1 as stated: whenever a request of a data load of Dashboard or
\* PredictorAgent fails (initial load, periodic refresh, Refresh Data, backup
\* schedule, delayed model-info refetch), the section it belongs to holds a
\* non-empty error string afterwards and the error list shows it.
C1_EveryFailureStored ==
  [][\A o \in requests : \A k \in Pending(o) :
       (FailStep(o, k) /\ o.op \in Fetchers) =>
         IF o.op \in DashFetchOps
         THEN /\ Truthy(dash'.error[DashSection(o)])
              /\ dash'.error[DashSection(o)] \in Range(DashErrorList')
         ELSE /\ Truthy(pred'.error[CellOf(o.reqs[k].endpoint)])
              /\ pred'.error[CellOf(o.reqs[k].endpoint)] \in Range(PredErrorList')]_vars

\* C1, what the code does on a failure: a failure of one of Dashboard's five
\* loads (the backup list request for the backup section) or of
\* PredictorAgent's fetchMetrics (initial or periodic), fetchPredictions or
\* fetchModelInfo stores the section's non-empty error string, which the error
\* list shows.  A failed backup schedule request is replaced by
\* {enabled: false} and sets no error, a failed Refresh Data is only logged and
\* leaves every error as it was, and a failed delayed model-info refetch is
\* not caught and changes nothing on the page.
C1_FailuresStored ==
  [][\A o \in requests : \A k \in Pending(o) :
       FailStep(o, k) =>
         CASE o.op \in DashFetchOps /\ o.reqs[k].endpoint # "getBackupSchedule" ->
                LET x == DashSection(o)
                IN /\ dash'.error[x] = DashErrorText(x)
                   /\ Truthy(dash'.error[x])
                   /\ dash'.error[x] \in Range(DashErrorList')
           [] o.op \in DashFetchOps /\ o.reqs[k].endpoint = "getBackupSchedule" ->
                dash'.error = dash.error
           [] o.op \in PredFetchOps ->
                LET x == PredCell(o)
                IN /\ pred'.error[x] = PredErrorText(x)
                   /\ Truthy(pred'.error[x])
                   /\ pred'.error[x] \in Range(PredErrorList')
           [] o.op = "refreshData" -> pred'.error = pred.error
           [] o.op = "refetchModelInfo" -> pred' = pred
           [] OTHER -> TRUE]_vars

\* C1 witness: on PredictorAgent a periodic metrics refresh has failed after
\* an earlier one had delivered data, and its error is listed
C1_Witness ==
  /\ Page = "PredictorAgent"
  /\ nextReq > MountRequests("PredictorAgent")
  /\ pred.error["metrics"] = "Failed to load metrics data"
  /\ pred.error["metrics"] \in Range(PredErrorList)
  /\ pred.metrics # Null

\* C3 as stated: an error string, once set, stays set for as long as the page
\* component lives
C3_ErrorNeverCleared ==
  [][/\ \A x \in Sections : dash.error[x] # None => dash'.error[x] = dash.error[x]
     /\ \A x \in Cells : pred.error[x] # None => pred'.error[x] = pred.error[x]]_vars

\* C3 amended: on the Dashboard an error string, once set, stays set for as
\* long as the page lives.  On PredictorAgent an error string changes only by
\* being cleared, and only when a later fetch of its own cell succeeds (the
\* periodic metrics refresh for the metrics cell) or a Refresh Data succeeds
\* as a whole; a failed request clears nothing.
C3_ErrorClearedOnlyBySuccess ==
  [][/\ \A x \in Sections : dash.error[x] # None => dash'.error[x] = dash.error[x]
     /\ \A x \in Cells :
          (pred.error[x] # None /\ pred'.error[x] # pred.error[x]) =>
            /\ pred'.error[x] = None
            /\ \E o \in requests : \E k \in Pending(o) :
                 /\ ResolveStep(o, k)
                 /\ \/ o.op \in PredFetchOps /\ PredCell(o) = x
                    \/ o.op = "refreshData"]_vars

\* C3 witness: the metrics error was set and a later periodic refresh is in
\* flight that may clear it
C3_Witness ==
  /\ Page = "PredictorAgent"
  /\ pred.error["metrics"] # None
  /\ pred.error["predictions"] # None
  /\ \E o \in requests : o.op = "fetchMetrics" /\ ~o.done

\* the number of pending timers equal to t
Count(ts, t) == Cardinality({i \in DOMAIN ts : ts[i] = t})

\* timer i fires in this step
Fires(i) ==
  \/ RemMockTimerFires(i)
  \/ CostMockTimerFires(i)
  \/ SecMockTimerFires(i)
  \/ BackupMockTimerFires(i)
  \/ SettingsMockTimerFires(i)
  \/ ExecuteTimerFires(i)
  \/ SaveTimerFires(i)
  \/ RefetchTimerFires(i)
  \/ MetricsIntervalFires(i)

\* C2 as stated: every timer that fires is gone afterwards, no request is
\* issued except by a mount (or a user action), and no pending timer or
\* request disappears without having fired or been answered.
C2_OneShotNeverCancelled ==
  [][/\ \A i \in DOMAIN timers :
          Fires(i) => Count(timers', timers[i]) = Count(timers, timers[i]) - 1
     /\ nextReq' # nextReq => route' # route
     /\ route' # route =>
          /\ \A t \in Range(timers) : Count(timers', t) >= Count(timers, t)
          /\ requests \subseteq requests']_vars

\* C2 amended: every setTimeout timer fires at most once and is never
\* cancelled, and every request is issued once and never cancelled, also
\* across unmounts.  The exception is PredictorAgent's metrics refresh: its
\* setInterval timer stays pending after each tick, every tick issues one more
\* metrics request by itself, and the timer is cancelled (clearInterval) when
\* the page unmounts.
C2_OneShotExceptInterval ==
  [][/\ \A i \in DOMAIN timers :
          Fires(i) =>
            IF timers[i].kind = "metricsInterval"
            THEN /\ Count(timers', timers[i]) = Count(timers, timers[i])
                 /\ nextReq' = nextReq + 1
                 /\ \E o \in requests' \ requests :
                      o.op = "fetchMetrics" /\ o.reqs[1].status = "pending"
            ELSE /\ Count(timers', timers[i]) = Count(timers, timers[i]) - 1
                 /\ nextReq' = nextReq
     /\ nextReq' # nextReq => route' # route \/ \E i \in DOMAIN timers : MetricsIntervalFires(i)
     /\ route' # route =>
          /\ \A t \in Range(timers) :
               IF t.kind = "metricsInterval" /\ t.epoch = epoch
               THEN t \notin Range(timers')
               ELSE Count(timers', t) >= Count(timers, t)
          /\ requests \subseteq requests']_vars

\* C2 witness: PredictorAgent was left after its interval had ticked; the
\* interval is gone, the requests it issued are still awaited and the page
\* now mounted has its own timer pending
C2_Witness ==
  /\ Page = "RemediatorAgent"
  /\ epoch > 0
  /\ nextReq > MountRequests("PredictorAgent")
  /\ \E o \in requests : o.op = "fetchMetrics" /\ o.epoch < epoch /\ ~o.done
  /\ \A t \in Range(timers) : t.kind # "metricsInterval"
  /\ \E t \in Range(timers) : t.kind = "remLoad" /\ t.epoch = epoch

\* the data of a Dashboard section
DashDataOf(d, x) ==
  CASE x = "cluster" -> d.clusterStatus
    [] x = "issues" -> d.issues
    [] x = "security" -> d.securityIssues
    [] x = "cost" -> d.costOptimization
    [] x = "backup" -> d.backupStatus

\* the fetch of section x is still awaited
DashAwaited(x) ==
  \E o \in requests : o.op \in DashFetchOps /\ DashSection(o) = x /\ ~o.done /\ Live(o)

\* C4: the five initial requests of the Dashboard may succeed or fail in any
\* order and mix.  Each response changes the data, loading flag and error of
\* its own section only; a section is loading exactly while its fetch is
\* awaited; once its fetch is over, the section either holds data and no error
\* (the fetch succeeded) or its error text and no data (the fetch failed, for
\* the backup section: its list request failed).  So when all five are over
\* every loading flag is false and error[x] is non-null exactly for the failed
\* sections.
C4_SectionsIndependent ==
  /\ [](\A x \in Sections :
          /\ dash.loading[x] = DashAwaited(x)
          /\ dash.error[x] \in {None, DashErrorText(x)}
          /\ DashAwaited(x) =>
               dash.error[x] = None /\ DashDataOf(dash, x) = DashDataOf(DashInit, x)
          /\ ~DashAwaited(x) =>
               (dash.error[x] = None) # (DashDataOf(dash, x) = DashDataOf(DashInit, x)))
  /\ [][\A o \in requests : \A k \in Pending(o) :
          LET x == DashSection(o)
          IN /\ (o.op \in DashFetchOps /\ (FailStep(o, k) \/ ResolveStep(o, k))) =>
                  \A y \in Sections \ {x} :
                    /\ DashDataOf(dash', y) = DashDataOf(dash, y)
                    /\ dash'.loading[y] = dash.loading[y]
                    /\ dash'.error[y] = dash.error[y]
             /\ (o.op \in DashFetchOps /\ ResolveStep(o, k)) =>
                  /\ dash'.error[x] = None
                  /\ ~dash'.loading[x]
                  /\ DashDataOf(dash', x) # DashDataOf(DashInit, x)
             /\ (o.op \in DashFetchOps /\ FailStep(o, k)
                   /\ o.reqs[k].endpoint # "getBackupSchedule") =>
                  /\ dash'.error[x] = DashErrorText(x)
                  /\ ~dash'.loading[x]
                  /\ DashDataOf(dash', x) = DashDataOf(DashInit, x)]_vars

\* C4 witness: all five fetches are over, two failed and three succeeded
C4_Witness ==
  /\ Page = "Dashboard"
  /\ \A x \in Sections : ~dash.loading[x] /\ ~DashAwaited(x)
  /\ {x \in Sections : dash.error[x] # None} = {"cluster", "backup"}
  /\ dash.issues # <<>>
  /\ dash.securityIssues # Null
  /\ dash.costOptimization # Null

\* the lists changed by nothing but the mock timer of their page
MockListsReplaced ==
  /\ sec'.securityIssues # sec.securityIssues => sec'.securityIssues = mockIssues
  /\ cost'.optimizations # cost.optimizations => cost'.optimizations = mockOptimizations
  /\ backup'.backups # backup.backups => backup'.backups = mockBackups
  /\ backup'.restores # backup.restores => backup'.restores = mockRestores
  /\ backup'.namespaces # backup.namespaces => backup'.namespaces = mockNamespaces

\* the data changed by nothing but a response that delivers it
FetchedReplaced ==
  /\ dash'.issues # dash.issues =>
       \E body \in Bodies("getPredictions") : dash'.issues = ToIssues(body)
  /\ \A x \in Cells :
       pred'[x] # pred[x] =>
         \E o \in requests : \E k \in DOMAIN o.reqs :
           /\ CellOf(o.reqs[k].endpoint) = x
           /\ pred'[x].req = o.reqs[k].id
           /\ pred'[x].body \in Bodies(o.reqs[k].endpoint)

\* C5 as stated: no handler changes the status of a record it holds, and
\* every list changes only by being replaced as a whole with mock or fetched
\* data.
C5_OnlyWholesaleReplacement ==
  [][/\ rem'.actions # rem.actions => rem'.actions = mockActions
     /\ backup'.selectedResources # backup.selectedResources =>
          backup'.selectedResources = mockSelectedResources
     /\ MockListsReplaced
     /\ FetchedReplaced]_vars

\* C5 amended: lists and records change only by wholesale replacement with
\* mock or fetched data, with two exceptions.  On RemediatorAgent the Execute
\* handler sets the status of the clicked action to 'in-progress', and its
\* timer replaces the list by the list as it was at the click with that
\* action 'completed' and its result and completedAt filled in.  On
\* BackupManager a resource check box appends one resource to
\* selectedResources or removes it.
C5_ReplacementOrExecute ==
  [][/\ rem'.actions # rem.actions =>
          \/ rem'.actions = mockActions
          \/ \E i \in DOMAIN rem.actions :
               /\ rem.actions[i].status = "pending"
               /\ rem'.actions = MarkInProgress(rem.actions, rem.actions[i].id)
          \/ \E i \in DOMAIN timers :
               /\ timers[i].kind = "execute"
               /\ rem'.actions = MarkCompleted(timers[i].captured, timers[i].arg)
     /\ backup'.selectedResources # backup.selectedResources =>
          \/ backup'.selectedResources = mockSelectedResources
          \/ \E r \in OfferedResources :
               \/ /\ \A q \in Range(backup.selectedResources) : ~SameResource(q, r)
                  /\ backup'.selectedResources = Append(backup.selectedResources, r)
               \/ /\ \E q \in Range(backup.selectedResources) : SameResource(q, r)
                  /\ backup'.selectedResources =
                       Filter(backup.selectedResources, LAMBDA q : ~SameResource(q, r))
     /\ MockListsReplaced
     /\ FetchedReplaced]_vars

\* C5 witness: one action was executed to completion and another is in
\* progress, next to untouched mock actions
C5_Witness ==
  /\ Page = "RemediatorAgent"
  /\ \E i, j \in DOMAIN rem.actions :
       /\ mockActions[i].status = "pending"
       /\ rem.actions[i].status = "completed"
       /\ rem.actions[j].status = "in-progress"

\* a mock page is loading / holds its hard-coded data
MockLoading(page) ==
  CASE page = "RemediatorAgent" -> rem.loading
    [] page = "CostOptimizer" -> cost.loading
    [] page = "BackupManager" -> backup.loading
    [] page = "SecurityScanner" -> sec.loading
    [] page = "Settings" -> settings.loading

MockPages == {Routes[path] : path \in MockPaths}

MockData(page) ==
  CASE page = "RemediatorAgent" -> rem.actions = mockActions
    [] page = "CostOptimizer" ->
         /\ cost.optimizations = mockOptimizations
         /\ cost.savingsSummary.current = SumOver(mockOptimizations, "currentCost")
         /\ cost.savingsSummary.potential = SumOver(mockOptimizations, "potentialCost")
    [] page = "BackupManager" ->
         /\ backup.backups = mockBackups
         /\ backup.restores = mockRestores
         /\ backup.namespaces = mockNamespaces
         /\ backup.selectedResources = mockSelectedResources
    [] page = "SecurityScanner" -> sec.securityIssues = mockIssues
    [] page = "Settings" -> settings.settings = defaultSettings

\* the mock timer of the mounted page is pending
MockTimerPending ==
  Cardinality({i \in DOMAIN timers :
                 /\ timers[i].epoch = epoch
                 /\ timers[i].kind \in {"remLoad", "costLoad", "backupLoad", "secLoad",
                                        "settingsLoad"}
                 /\ timers[i].delay = MockDelay}) = 1

\* C6: on each of the five mock pages loading is true from the mount exactly
\* while the page's single delay timer is pending; the step in which loading
\* becomes false is the firing of that timer and leaves the page with its
\* hard-coded data (Settings: its hard-coded settings); loading does not
\* become true again while the page stays mounted (only the Reset button of
\* Settings, which reloads the document and so mounts the page anew, starts
\* over); and if pending timers eventually fire, a loading page eventually is
\* loaded.
C6_MockPagesLoad ==
  /\ [](Page \in MockPages /\ (MockLoading(Page) = MockTimerPending))
  /\ [][\A page \in MockPages :
          /\ (MockLoading(page) /\ ~MockLoading(page)') =>
               /\ Page = page
               /\ MockData(page)'
               /\ \E i \in DOMAIN timers : Fires(i) /\ timers[i].delay = MockDelay
          /\ (~MockLoading(page) /\ MockLoading(page)') => SettingsReset]_vars
  /\ \A page \in MockPages : (Page = page /\ MockLoading(page)) ~> (Page = page /\ ~MockLoading(page))

\* C6 witness: a mock page has loaded and shows its mock data
C6_Witness ==
  /\ Page = "BackupManager"
  /\ ~backup.loading
  /\ backup.backups = mockBackups
  /\ \A i \in DOMAIN timers : timers[i].kind # "backupLoad"

\* C7: page state belongs to the mounted component.  A page that is not
\* mounted holds no state (here: its initial values), so no handler or timer
\* of one page writes another page's state; in particular RemediatorAgent's
\* autoRemediate and the Settings form's autoRemediateEnabled never change in
\* the same step.  A timer of an unmounted instance changes no page state when
\* it fires, and every mount starts the page from its initial state whatever
\* an earlier mount of it had reached.
C7_PageStateIsolated ==
  /\ [](/\ Page # "RemediatorAgent" => rem = RemInit
        /\ Page # "Settings" => settings = SettingsInit
        /\ Page # "BackupManager" => backup = BackupInit)
  /\ [][/\ ~(/\ rem'.autoRemediate # rem.autoRemediate
             /\ settings'.settings.autoRemediateEnabled # settings.settings.autoRemediateEnabled)
        /\ \A i \in DOMAIN timers :
             (Fires(i) /\ ~Live(timers[i])) =>
               rem' = rem /\ settings' = settings /\ backup' = backup
        /\ route' # route =>
             rem' = RemInit /\ settings' = SettingsInit /\ backup' = BackupInit]_vars

\* C7 witness: RemediatorAgent is mounted again and loaded while a timer of
\* its earlier instance, in which an action was executed and the toggle may
\* have been switched, is still pending
C7_Witness ==
  /\ Page = "RemediatorAgent"
  /\ epoch = MaxMounts
  /\ ~rem.loading
  /\ rem.actions = mockActions
  /\ ~rem.autoRemediate
  /\ \E t \in Range(timers) : t.kind = "execute" /\ t.epoch = 0

\* C8 as stated: every numeric setting lies within the range declared on its
\* input (min and, where declared, max)
C8_SettingsWithinRanges ==
  \A input \in FormInputs :
    input.type = "number" =>
      /\ settings.settings[input.name] >= input.min
      /\ input.max # NoBound => settings.settings[input.name] <= input.max

RECURSIVE WithStatus(_, _)
\* the actions of the given status, in the order of the list
WithStatus(actions, status) ==
  IF actions = <<>> THEN <<>>
  ELSE (IF Head(actions).status = status THEN <<Head(actions)>> ELSE <<>>)
         \o WithStatus(Tail(actions), status)

\* C9: getFilteredActions returns every action under the 'all' tab and
\* otherwise exactly the actions whose status equals the tab, in their
\* original order; an 'in-progress' action is shown under 'all' only; and the
\* count in each tab label is the number of rows that tab displays.
C9_FilteredActions ==
  LET shown == getFilteredActions(rem.actions, rem.activeTab)
  IN /\ RemRows = shown
     /\ rem.activeTab = "all" => shown = rem.actions
     /\ rem.activeTab # "all" =>
          /\ shown = WithStatus(rem.actions, rem.activeTab)
          /\ \A a \in Range(shown) : a.status # "in-progress"
     /\ \A a \in Range(rem.actions) :
          a.status = "in-progress" => a \in Range(getFilteredActions(rem.actions, "all"))
     /\ \A tab \in RemTabs :
          TabLabelCount(tab) = Len(getFilteredActions(rem.actions, tab))

\* C9 witness: the 'failed' tab shows some but not all of a list that also
\* holds an action in progress
C9_Witness ==
  /\ rem.activeTab = "failed"
  /\ \E a \in Range(rem.actions) : a.status = "in-progress"
  /\ \E a \in Range(rem.actions) : a.status = "completed"
  /\ Len(RemRows) = 1
  /\ timers # <<>>

RECURSIVE OfType(_, _)
\* the issues of the given type, in the order of the list
OfType(issues, type) ==
  IF issues = <<>> THEN <<>>
  ELSE (IF Head(issues).type = type THEN <<Head(issues)>> ELSE <<>>)
         \o OfType(Tail(issues), type)

\* C10: SecurityScanner displays every issue under the filter 'all' and
\* otherwise exactly the issues whose type equals the filter, in order; the
\* count in the heading is the number of displayed rows; the four severity
\* counts are taken over all issues whatever the filter is, and a change of
\* the filter leaves them as they are.
C10_FilteredIssues ==
  /\ [](LET shown == filteredIssues(sec.securityIssues, sec.filter)
        IN /\ SecRows = shown
           /\ sec.filter = "all" => shown = sec.securityIssues
           /\ sec.filter # "all" => shown = OfType(sec.securityIssues, sec.filter)
           /\ SecHeadingCount = Len(SecRows)
           /\ \A severity \in Severities :
                SeverityCards[severity] =
                  Cardinality({i \in DOMAIN sec.securityIssues :
                                 sec.securityIssues[i].severity = severity}))
  /\ [][sec'.filter # sec.filter => SeverityCards' = SeverityCards]_vars

\* C10 witness: a filter hides part of the list and the severity cards still
\* count the hidden issues
C10_Witness ==
  /\ sec.filter = "compliance"
  /\ Len(SecRows) = 1
  /\ Len(sec.securityIssues) = MaxLen
  /\ SeverityCards["critical"] = MaxLen - 1
  /\ SecRows[1].severity = "low"

RECURSIVE SumUpTo(_, _, _)
\* the sum of a field over the first n entries of a list
SumUpTo(list, field, n) ==
  IF n = 0 THEN 0 ELSE SumUpTo(list, field, n - 1) + list[n][field]

\* C11: before the data loads the three values of the savings summary are 0;
\* once it has loaded, current is the sum of currentCost and potential the
\* sum of potentialCost over all optimizations, the percentage shown is
\* (current - potential) / current x 100 rounded to one decimal, and the
\* savings amount shown is current - potential.
C11_SavingsSummary ==
  LET list == cost.optimizations
      current == SumUpTo(list, "currentCost", Len(list))
      potential == SumUpTo(list, "potentialCost", Len(list))
      tenths == cost.savingsSummary.percentage
  IN /\ cost.loading =>
          /\ cost.savingsSummary = [current |-> 0, potential |-> 0, percentage |-> 0]
          /\ SavingsShown = 0
     /\ ~cost.loading =>
          /\ cost.savingsSummary.current = current
          /\ cost.savingsSummary.potential = potential
          /\ 2 * current * tenths <= 2000 * (current - potential) + current
          /\ 2 * current * tenths > 2000 * (current - potential) - current
          /\ SavingsShown = current - potential

\* C11 witness: a list of MaxLen optimizations has loaded whose percentage
\* needed rounding
C11_Witness ==
  /\ Page = "CostOptimizer"
  /\ ~cost.loading
  /\ Len(cost.optimizations) = MaxLen
  /\ cost.savingsSummary.current > cost.savingsSummary.potential
  /\ cost.savingsSummary.current * cost.savingsSummary.percentage
       # 1000 * SavingsShown

\* the endpoint paths the interface section lists
EndpointPaths ==
  { <<"predictor", "metrics">>, <<"predictor", "predictions">>,
    <<"predictor", "metrics", "history">>, <<"predictor", "model", "train">>,
    <<"predictor", "model", "info">>,
    <<"security", "scan", "results">>, <<"security", "scan", "start">>,
    <<"security", "vulnerabilities">>, <<"security", "misconfigurations">>,
    <<"security", "compliance">>, <<"security", "scan", "history">>,
    <<"cost", "analysis">>, <<"cost", "suggestions">>, <<"cost", "utilization">>,
    <<"cost", "optimize", "{id}">>, <<"cost", "history">>, <<"cost", "cloud", "details">>,
    <<"backup", "list">>, <<"backup", "{id}">>, <<"backup", "create">>,
    <<"backup", "{id}", "restore">>, <<"backup", "restore", "jobs">>,
    <<"backup", "schedule">>,
    <<"remediator", "issues">>, <<"remediator", "issues", "{id}", "suggestions">>,
    <<"remediator", "issues", "{id}", "remediate">>, <<"remediator", "history">>,
    <<"remediator", "remediation", "{id}">>, <<"remediator", "settings", "auto">> }

\* the path of a request is the listed path with an argument for each {id}
Instantiates(path, listed) ==
  /\ Len(path) = Len(listed)
  /\ \A i \in DOMAIN listed :
       IF listed[i] = "{id}" THEN path[i] \in Args ELSE path[i] = listed[i]

\* C12: a call of a REST wrapper issues exactly one request, of the
\* wrapper's method, at a listed endpoint path with its id substituted (the
\* delete request at /backup/{id}, and only there); on success it returns the
\* response body unchanged, on failure it throws without issuing another
\* request; the paths of the wrappers are exactly the listed endpoint paths
\* and no two wrappers share method and path.
C12_WrappersIssueOneRequest ==
  /\ [](/\ {w.path : w \in Wrappers} = EndpointPaths
        /\ \A v, w \in Wrappers : v.method = w.method /\ v.path = w.path => v = w
        /\ \A w \in Wrappers : w.method = "delete" <=> w.name = "deleteBackup"
        /\ \A o \in requests :
             /\ Len(o.reqs) = 1
             /\ o.reqs[1].id = nextReq - 1
             /\ \E w \in Wrappers :
                  /\ w.name = o.op
                  /\ o.reqs[1].method = w.method
                  /\ Instantiates(o.reqs[1].path, w.path)
                  /\ w.path \in EndpointPaths
             /\ o.done /\ o.reqs[1].status = "ok" =>
                  ~o.threw /\ o.returned = o.reqs[1].body /\ o.returned \in Bodies(o.op)
             /\ o.done /\ o.reqs[1].status = "failed" => o.threw /\ o.returned = NoBody
             /\ ~o.done => o.reqs[1].status = "pending")
  /\ [][(\E o \in requests : ~o.done) =>
          nextReq' = nextReq /\ \A o \in requests' : o.done]_vars

\* C12 witness: restoreFromBackup("x1") has returned the body of its one
\* request to /backup/x1/restore
C12_Witness ==
  \E o \in requests :
    /\ o.op = "restoreFromBackup"
    /\ o.reqs[1].path = <<"backup", "x1", "restore">>
    /\ o.reqs[1].method = "post"
    /\ o.done /\ ~o.threw
    /\ o.returned \in Bodies("restoreFromBackup")

\* C13: at each of the seven paths App renders exactly one page, the page
\* routed at that path, beside the same Sidebar and Navbar; the Sidebar's
\* link targets are exactly the routed paths; and from any page a single
\* Sidebar click leads to any other page.
C13_FlatRouter ==
  /\ [](/\ Cardinality(DOMAIN Routes) = 7
        /\ App.main = {Routes[route]}
        /\ App.sidebar = navItems /\ App.navbar = "Navbar"
        /\ Range(navItems) = DOMAIN Routes
        /\ \A p, q \in DOMAIN Routes : Routes[p] = Routes[q] => p = q
        /\ epoch < MaxMounts /\ Len(timers) < MaxTimers =>
             \A p \in DOMAIN Routes \ {route} :
               \E i \in DOMAIN navItems : ENABLED (SidebarClick(i) /\ route' = p))
  /\ [][route' # route =>
          /\ \E i \in DOMAIN navItems : navItems[i] = route'
          /\ App'.main = {Routes[route']}
          /\ App'.sidebar = App.sidebar /\ App'.navbar = App.navbar]_vars

\* C13 witness: the document was loaded at /settings and two Sidebar clicks
\* later the Dashboard is the one page rendered
C13_Witness ==
  /\ epoch = 2
  /\ route = "/"
  /\ App.main = {"Dashboard"}
  /\ \E i \in DOMAIN timers : timers[i].kind = "settingsLoad"

\* the pending completion timers of Execute clicks
ExecuteTimers == {i \in DOMAIN timers : timers[i].kind = "execute"}

\* C14: whatever the interleaving of Execute clicks and completion timers,
\* an executed action is 'completed' once every completion timer has fired
\* (none is left 'in-progress'), and a 'completed' action stays 'completed'.
C14_ExecutedReachCompleted ==
  /\ [](ExecuteTimers = {} =>
          \A k \in DOMAIN rem.actions : rem.actions[k].status # "in-progress")
  /\ [][\A k \in DOMAIN rem.actions :
          rem.actions[k].status = "completed" =>
            k \in DOMAIN rem'.actions /\ rem'.actions[k].status = "completed"]_vars

\* C15: an Execute clicked while no other execution is under way turns the
\* action 'in-progress' at once and leaves every other action as it was;
\* when its timer fires with nothing else clicked meanwhile, the action is
\* 'completed' (never 'failed') with result 'success', an executedAt time
\* and a details text, and every other action keeps all of its fields.
C15_SingleExecute ==
  /\ [][\A k \in DOMAIN rem.actions :
          (/\ ExecuteTimers = {}
           /\ rem.actions[k].status = "pending"
           /\ rem'.actions # rem.actions
           /\ rem'.actions[k] # rem.actions[k]) =>
            /\ rem'.actions[k] = [rem.actions[k] EXCEPT !.status = "in-progress"]
            /\ \A j \in DOMAIN rem.actions \ {k} : rem'.actions[j] = rem.actions[j]
            /\ \E i \in DOMAIN timers' :
                 /\ timers'[i].kind = "execute"
                 /\ timers'[i].arg = rem.actions[k].id
                 /\ timers'[i].delay = ExecuteDelay]_vars
  /\ [][\A i \in ExecuteTimers :
          (/\ ExecuteTimers = {i}
           /\ Live(timers[i])
           /\ rem.actions = MarkInProgress(timers[i].captured, timers[i].arg)
           /\ timers' = RemoveAt(timers, i)) =>
            \A k \in DOMAIN rem.actions :
              IF rem.actions[k].id = timers[i].arg
              THEN /\ rem.actions[k].status = "in-progress"
                   /\ rem'.actions[k].id = rem.actions[k].id
                   /\ rem'.actions[k].status = "completed"
                   /\ rem'.actions[k].result = "success"
                   /\ rem'.actions[k].executedAt # None
                   /\ rem'.actions[k].details # None
              ELSE rem'.actions[k] = rem.actions[k]]_vars

\* C15 witness: action-001 was executed alone and its timer has fired
C15_Witness ==
  /\ Page = "RemediatorAgent"
  /\ ExecuteTimers = {}
  /\ Len(rem.actions) = Len(mockActions)
  /\ rem.actions[1].status = "completed"
  /\ rem.actions[1].result = "success"
  /\ rem.actions[4].status = "pending"

\* how far an action has got
Rank(status) ==
  CASE status = "pending" -> 0
    [] status = "in-progress" -> 1
    [] OTHER -> 2

\* C16: no step moves an action's status backwards (from 'in-progress' to
\* 'pending', from 'completed' to 'in-progress' or 'pending'), and no action
\* is executed twice (no two completion timers are for the same action).
C16_StatusNeverBackwards ==
  /\ [](\A i, j \in ExecuteTimers : timers[i].arg = timers[j].arg => i = j)
  /\ [][\A k \in DOMAIN rem.actions :
          k \in DOMAIN rem'.actions /\
          Rank(rem'.actions[k].status) >= Rank(rem.actions[k].status)]_vars

\* C17: the metrics shown are the response to the latest metrics request
\* answered so far: no step replaces the metrics shown by the response to a
\* request issued earlier than the one they answer.
C17_NewestMetricsShown ==
  [][pred.metrics # Null /\ pred'.metrics # Null /\ Page' = "PredictorAgent" /\ epoch' = epoch
       => pred'.metrics.req >= pred.metrics.req]_vars

\* an operation of the mounted page that requested the cell's data has not
\* yet run its continuation
InFlight(x) ==
  \E o \in requests :
    /\ Live(o)
    /\ ~o.done
    /\ \E k \in DOMAIN o.reqs : CellOf(o.reqs[k].endpoint) = x

\* C18: on the PredictorAgent page the loading flag of metrics, predictions
\* and modelInfo is true exactly while a request for that data is in flight.
C18_LoadingIffInFlight ==
  Page = "PredictorAgent" => \A x \in Cells : pred.loading[x] <=> InFlight(x)

\* a timer or a continuation of an unmounted page runs in this step
UnmountedRuns ==
  /\ epoch' = epoch
  /\ \/ \E i \in DOMAIN timers : ~Live(timers[i]) /\ timers' = RemoveAt(timers, i)
     \/ \E o \in requests : ~Live(o) /\ o \notin requests'

\* C19: a timer or request continuation of an unmounted page changes no
\* page state and issues no request.
C19_UnmountedPageIsInert ==
  [][UnmountedRuns =>
       /\ UNCHANGED <<dash, pred, sec, cost, backup, rem, settings>>
       /\ nextReq' = nextReq]_vars

\* the pending metrics interval timers
MetricsTimers == {i \in DOMAIN timers : timers[i].kind = "metricsInterval"}

\* the fetchMetrics operations a step starts
MetricsStarted == {o \in requests' \ requests : o.op = "fetchMetrics" /\ ~o.done}

\* C20: while PredictorAgent is mounted exactly one 30-second interval
\* timer of its instance is pending, and none when it is not mounted; a
\* mount of the page starts one metrics fetch, every tick of the interval
\* starts one more and leaves the interval pending; a metrics fetch that
\* succeeds replaces the metrics by its response and clears the metrics
\* error; and no metrics fetch is started for an instance that has
\* unmounted.
C20_PeriodicMetrics ==
  /\ [](IF Page = "PredictorAgent"
        THEN \E i \in MetricsTimers :
               /\ MetricsTimers = {i}
               /\ Live(timers[i])
               /\ timers[i].delay = MetricsInterval
        ELSE MetricsTimers = {})
  /\ [][/\ epoch' # epoch /\ Page' = "PredictorAgent" =>
             \E o \in MetricsStarted : MetricsStarted = {o} /\ o.epoch = epoch'
        /\ \A i \in DOMAIN timers :
             MetricsIntervalFires(i) =>
               /\ Page = "PredictorAgent"
               /\ \E o \in MetricsStarted :
                    /\ MetricsStarted = {o}
                    /\ o.epoch = epoch
                    /\ Len(o.reqs) = 1 /\ o.reqs[1].endpoint = "getMetrics"
               /\ nextReq' = nextReq + 1
        /\ \A o \in requests :
             o.op = "fetchMetrics" /\ ResolveStep(o, 1) =>
               /\ pred'.metrics # Null
               /\ pred'.metrics.req = o.reqs[1].id
               /\ pred'.metrics.body \in Bodies("getMetrics")
               /\ pred'.error["metrics"] = None
        /\ \A o \in MetricsStarted : o.epoch = epoch']_vars

\* C20 witness: PredictorAgent is mounted, its interval has ticked and the
\* metrics shown are the response to the request of that tick
C20_Witness ==
  /\ Page = "PredictorAgent"
  /\ epoch = 0
  /\ MetricsTimers # {}
  /\ pred.metrics # Null
  /\ pred.metrics.req > MountRequests("PredictorAgent")
  /\ pred.error["metrics"] = None

\* the refreshData operations of the mounted page still awaiting Promise.all
Refreshing == {o \in requests : o.op = "refreshData" /\ Live(o) /\ ~o.done}

\* C21: when the last of the three responses of a Refresh Data arrives and
\* all succeeded, the three data values are replaced by the three responses
\* and the three error strings are cleared; when one of its requests fails,
\* no data value and no error string changes; in both cases the three
\* loading flags are false after the step.  Responses that arrive after the
\* failure change nothing.
C21_RefreshAllOrNothing ==
  [][/\ \A o \in Refreshing : \A k \in DOMAIN o.reqs :
          /\ ResolveStep(o, k) =>
               /\ pred'.metrics.req = o.reqs[1].id
               /\ pred'.predictions.req = o.reqs[2].id
               /\ pred'.modelInfo.req = o.reqs[3].id
               /\ pred'.metrics.body \in Bodies("getMetrics")
               /\ pred'.predictions.body \in Bodies("getPredictions")
               /\ pred'.modelInfo.body \in Bodies("getModelInfo")
               /\ \A x \in Cells : pred'.error[x] = None /\ ~pred'.loading[x]
          /\ FailStep(o, k) =>
               /\ pred'.metrics = pred.metrics
               /\ pred'.predictions = pred.predictions
               /\ pred'.modelInfo = pred.modelInfo
               /\ pred'.error = pred.error
               /\ \A x \in Cells : ~pred'.loading[x]
     /\ \A o \in requests :
          o.op = "refreshData" /\ o.done /\ o \notin requests' /\ epoch' = epoch
            => pred' = pred]_vars

\* C21 witness: a Refresh Data was rejected by a failed request while the
\* data of the mount is shown: nothing was replaced, no error is listed and
\* no loading flag is set
C21_Witness ==
  /\ Page = "PredictorAgent"
  /\ \E o \in requests : o.op = "refreshData" /\ o.done /\ Rejected(o)
  /\ pred.metrics # Null /\ pred.predictions # Null /\ pred.modelInfo # Null
  /\ pred.metrics.req = 1 /\ pred.predictions.req = 2 /\ pred.modelInfo.req = 3
  /\ \A x \in Cells : pred.error[x] = None /\ ~pred.loading[x]

\* the Dashboard's backup fetch, while its Promise.all is awaited
BackupFetching == {o \in requests : o.op = "fetchBackupStatus" /\ Live(o) /\ ~o.done}

\* the backup section has loaded without a schedule
LoadedUnscheduled(d, backups) ==
  /\ d.backupStatus # Null
  /\ d.backupStatus.scheduled = FALSE
  /\ d.backupStatus.totalBackups = Len(backups)
  /\ d.error["backup"] = None
  /\ ~d.loading["backup"]

\* C22: in the Dashboard's backup fetch a failed backup-schedule request is
\* no error: alone it changes nothing, and with the backup list loaded the
\* section shows scheduled = false, error.backup null and loading.backup
\* false; a failed backup-list request sets error.backup to 'Failed to load
\* backup data', leaves backupStatus null and loading.backup false.
C22_ScheduleFailureTolerated ==
  [][\A o \in BackupFetching :
       /\ FailStep(o, 2) =>
            IF o.reqs[1].status = "ok"
            THEN LoadedUnscheduled(dash', o.reqs[1].body)
            ELSE dash' = dash
       /\ ResolveStep(o, 1) /\ o.reqs[2].status = "failed" =>
            \E backups \in Bodies("getBackups") : LoadedUnscheduled(dash', backups)
       /\ FailStep(o, 1) =>
            /\ dash'.error["backup"] = "Failed to load backup data"
            /\ dash'.backupStatus = Null
            /\ ~dash'.loading["backup"]]_vars

\* C22 witness: the backup list arrived, the schedule request failed, and
\* the section is shown unscheduled without an error
C22_Witness ==
  /\ Page = "Dashboard"
  /\ \A o \in requests : o.op # "fetchBackupStatus"
  /\ \E backups \in Bodies("getBackups") : LoadedUnscheduled(dash, backups)

\* the pending model-info re-fetch timers
RefetchTimers == {i \in DOMAIN timers : timers[i].kind = "refetch"}

\* the operations of the mounted page named op that still await a response
Awaiting(op) == {o \in requests : o.op = op /\ Live(o) /\ ~o.done}

\* C23: a training request that succeeds starts exactly one timer of 5 s
\* and one that fails starts none; when the timer fires it requests the
\* model information once, and a successful response replaces modelInfo.
\* The click, the training response, the firing and the response to the
\* re-fetch change neither metrics nor predictions nor a loading flag nor an
\* error string.
C23_TrainingRefetchesOnce ==
  [][/\ \A o \in Awaiting("trainModel") :
          /\ ResolveStep(o, 1) =>
               /\ timers' = Append(timers, TimerAt(epoch, "refetch", RefetchDelay, None, <<>>))
               /\ Cardinality({i \in DOMAIN timers' : timers'[i].kind = "refetch"})
                    = Cardinality(RefetchTimers) + 1
               /\ pred' = pred
          /\ FailStep(o, 1) => timers' = timers /\ pred' = pred /\ nextReq' = nextReq
     /\ (\E o \in requests' \ requests : o.op = "trainModel" /\ ~o.done) =>
          pred' = pred /\ timers' = timers
     /\ \A i \in RefetchTimers :
          RefetchTimerFires(i) =>
            /\ pred' = pred
            /\ nextReq' = nextReq + 1
            /\ \E o \in requests' \ requests :
                 /\ requests' = requests \cup {o}
                 /\ Len(o.reqs) = 1
                 /\ o.reqs[1].endpoint = "getModelInfo"
            /\ Cardinality({j \in DOMAIN timers' : timers'[j].kind = "refetch"})
                 = Cardinality(RefetchTimers) - 1
     /\ \A o \in Awaiting("refetchModelInfo") :
          /\ ResolveStep(o, 1) =>
               /\ pred'.modelInfo.req = o.reqs[1].id
               /\ pred'.modelInfo.body \in Bodies("getModelInfo")
               /\ pred' = [pred EXCEPT !.modelInfo = pred'.modelInfo]
          /\ FailStep(o, 1) => pred' = pred]_vars

\* C23 witness: the model was trained once after the mount's data had
\* loaded, the timer has fired and modelInfo is the response to its request
C23_Witness ==
  /\ Page = "PredictorAgent"
  /\ RefetchTimers = {}
  /\ requests = {}
  /\ nextReq = 5
  /\ pred.modelInfo # Null /\ pred.modelInfo.req = 5
  /\ pred.metrics # Null /\ pred.metrics.req = 1
  /\ pred.predictions # Null /\ pred.predictions.req = 2

RECURSIVE UsageUpTo(_, _, _)
\* the sum of a usage field over the first n nodes
UsageUpTo(nodes, field, n) ==
  IF n = 0 THEN 0 ELSE UsageUpTo(nodes, field, n - 1) + nodes[n][field]

\* value is the mean of the field over the nodes, rounded to the nearest integer
RoundedMean(value, nodes, field) ==
  LET n == Len(nodes)
      total == UsageUpTo(nodes, field, n)
  IN /\ value \in 0..100
     /\ 2 * n * value <= 2 * total + n
     /\ 2 * n * value > 2 * total - n

\* C24: for every metrics response the Dashboard's clusterStatus has nodes
\* and pods equal to the numbers of node and pod entries, and cpuUsage and
\* memoryUsage equal to the means of cpu_usage and memory_usage over the
\* nodes rounded to the nearest integer, both integers in 0..100 (every node
\* value of the responses lies in 0..100).
C24_ClusterStatusMeans ==
  [][\A metrics \in MetricsResponses :
       ClusterStatusResponse(metrics) =>
         /\ dash'.clusterStatus # Null
         /\ dash'.clusterStatus.nodes = Len(metrics.nodes)
         /\ dash'.clusterStatus.pods = Len(metrics.pods)
         /\ RoundedMean(dash'.clusterStatus.cpuUsage, metrics.nodes, "cpu_usage")
         /\ RoundedMean(dash'.clusterStatus.memoryUsage, metrics.nodes, "memory_usage")]_vars

====
